---- MODULE Spec2Model ----
(***************************************************************************)
(* Model of the sitemapper harvesting pipeline: the circuit breaker        *)
(* (circuit_breaker.py), and the orchestrator's per-source pipelines       *)
(* (orchestrator.py) with the source client, progress tracker and sitemap  *)
(* assembler they drive.                                                   *)
(*                                                                         *)
(* Time is the integer reading of time.time(); it starts at 1 and only     *)
(* moves forward.                                                          *)
(***************************************************************************)
EXTENDS Integers, Sequences, FiniteSets, TLC

\* ------------------------------------------------------------------------
\* Bounds of the model
\* ------------------------------------------------------------------------
\* last instant the clock can reach
MaxTime == 4
\* largest failure_threshold / success_threshold / recovery_timeout a breaker
\* of the stand-alone breaker specification is configured with
MaxFailureThreshold == 3
MaxSuccessThreshold == 2
MaxRecoveryTimeout == 2

\* a run of the orchestrator with several sources: number of sources,
\* largest parallel_workers, number of faults injected (a source going down,
\* slow or unhealthy, a network outage, a rejected url pattern, a failed
\* file write) and largest numFound a source reports
NumCores == 3
MaxWorkers == 2
MaxFaults == 1
MaxDocsMulti == 1
\* the same number of faults for a run with a single source, and for the
\* end-to-end run
PipeFaults == 3
E2EFaults == 1
\* a run with a single source some of whose documents cannot be converted:
\* number of faults
ConvFaults == 1
\* a run in test mode with a single source: number of faults, and largest
\* numFound the source reports
TestFaults == 1
MaxDocsTest == 11
\* the clock reading after which an orchestrator run is no longer followed
MaxClock == 31
\* largest numFound the source of a single-source run reports, and the value
\* up to which the error count of a source is followed (MaxErrors stands for
\* "MaxErrors or more")
MaxDocs == 5
MaxErrors == 3

\* longest url pattern, in tokens, a URLBuilder is constructed from
MaxPatternLen == 4

\* the progress tracker on its own: number of sources, and the largest
\* processed / total a caller reports
TrackerSources == 1
MaxProgress == 2

\* Optional[float] last_failure_time = None (a value no clock reading has)
None == -1

Max(a, b) == IF a >= b THEN a ELSE b
Min(a, b) == IF a <= b THEN a ELSE b

VARIABLES
    now,                \* time.time()
    circuit_breakers,   \* CircuitBreakerManager.circuit_breakers: name -> CircuitBreaker
    cb_call,            \* per name: the call() in progress or its outcome
    consec_failures,    \* per name: failed calls since the last successful call or reset()
    probe_successes,    \* per name: calls that succeeded in HALF_OPEN since the breaker last entered it
    semaphore,          \* ProcessingOrchestrator.semaphore: free admission permits
    pc,                 \* per source: where its pipeline task stands
    attempt,            \* per source: attempt of _perform_health_check_with_retry
    errors,             \* per source: process_core's errors list
    total_docs,         \* per source: the count get_total_docs returned
    start_offset,       \* per source: _process_documents_to_entries' start_offset
    processed_count,    \* per source: _process_documents_to_entries' processed_count
    gen,                \* per source: generate_sitemaps' current_entries, generated_files, file_counter
    task_results,       \* per source: what its task handed to gather
    core_progress,      \* ProgressTracker.core_progress: name -> CoreProgress
    overall_stats,      \* ProgressTracker.overall_stats
    pa_state,           \* process_all_cores: "running", "returned" or "raised"
    processing_result,  \* the ProcessingResult process_all_cores returned
    progress_task,      \* the task of _log_overall_progress_periodically: its state,
                        \* when its sleep ends, and how often it has logged
    config,             \* AppConfig: number of cores, parallel_workers, sitemap.base_url;
                        \* docs: the numFound of each source where the run fixes it;
                        \* bad_ids: the documents whose id is blank
    source,             \* per source: how the remote core answers ("up", "down", "slow", "unhealthy")
    outage,             \* the network is down: no source can be reached
    faults_left,        \* faults the environment may still inject
    fetch_log,          \* per source: the offsets of its fetch_docs_batch calls, followed
                        \* while none of them has failed
    num_found,          \* per source: the numFound of the remote core, once it has answered
    output_dir,         \* SitemapConfig.output_dir: the names of the files in it
    shutdown_requested, \* ServiceManager._shutdown_requested
    url_builder         \* a URLBuilder under construction: its pattern and what became of it

cbvars == <<now, circuit_breakers, cb_call, consec_failures, probe_successes>>
orchvars == <<semaphore, pc, attempt, errors, total_docs, start_offset, processed_count,
              gen, task_results, core_progress, overall_stats, pa_state, processing_result,
          progress_task,
              config, source, outage, faults_left, fetch_log, num_found, output_dir,
              shutdown_requested, url_builder>>
vars == <<now, circuit_breakers, cb_call, consec_failures, probe_successes,
          semaphore, pc, attempt, errors, total_docs, start_offset, processed_count,
          gen, task_results, core_progress, overall_stats, pa_state, processing_result,
          progress_task,
          config, source, outage, faults_left, fetch_log, num_found, output_dir,
          shutdown_requested, url_builder>>

\* ------------------------------------------------------------------------
\* circuit_breaker.py: CircuitBreaker
\* ------------------------------------------------------------------------
CLOSED == "closed"
OPEN == "open"
HALF_OPEN == "half_open"

\* CircuitBreakerConfig as the orchestrator builds it
circuit_config ==
    [failure_threshold |-> 3, recovery_timeout |-> 30, success_threshold |-> 2]

\* CircuitBreaker.__init__
CircuitBreaker(cfg) ==
    [config |-> cfg,
     state |-> CLOSED,
     failure_count |-> 0,
     success_count |-> 0,
     last_failure_time |-> None]

\* variant: the cool-down must be strictly exceeded
should_attempt_reset_strict(b, t) ==
    IF b.last_failure_time = None
    THEN TRUE
    ELSE (t - b.last_failure_time) > b.config.recovery_timeout

should_attempt_reset(b, t) ==
    IF b.last_failure_time = None
    THEN TRUE
    ELSE (t - b.last_failure_time) >= b.config.recovery_timeout

transition_to_half_open(b) ==
    [b EXCEPT !.state = HALF_OPEN, !.success_count = 0]

\* the time_remaining that _fail_fast puts into its SolrConnectionError
fail_fast(b, t) ==
    IF b.last_failure_time # None /\ b.last_failure_time # 0
    THEN Max(0, b.config.recovery_timeout - (t - b.last_failure_time))
    ELSE b.config.recovery_timeout

\* variant: closing keeps the failure counter
transition_to_closed_keep(b) ==
    [b EXCEPT !.state = CLOSED, !.success_count = 0]

transition_to_closed(b) ==
    [b EXCEPT !.state = CLOSED, !.failure_count = 0, !.success_count = 0]

\* variant: opening keeps the probe counter
transition_to_open_keep(b) ==
    [b EXCEPT !.state = OPEN]

transition_to_open(b) ==
    [b EXCEPT !.state = OPEN, !.success_count = 0]

\* variant: the first successful probe closes the breaker
on_success_first(b) ==
    IF b.state = HALF_OPEN
    THEN transition_to_closed([b EXCEPT !.success_count = b.success_count + 1])
    ELSE IF b.state = CLOSED
    THEN [b EXCEPT !.failure_count = 0]
    ELSE b

\* variant: a success in CLOSED leaves the failure counter alone
on_success_noreset(b) ==
    IF b.state = HALF_OPEN
    THEN LET b1 == [b EXCEPT !.success_count = b.success_count + 1]
         IN  IF b1.success_count >= b1.config.success_threshold
             THEN transition_to_closed(b1)
             ELSE b1
    ELSE b

on_success(b) ==
    IF b.state = HALF_OPEN
    THEN LET b1 == [b EXCEPT !.success_count = b.success_count + 1]
         IN  IF b1.success_count >= b1.config.success_threshold
             THEN transition_to_closed(b1)
             ELSE b1
    ELSE IF b.state = CLOSED
    THEN [b EXCEPT !.failure_count = 0]
    ELSE b

\* variant: CLOSED opens one failure late
on_failure_late(b, t) ==
    LET b1 == [b EXCEPT !.failure_count = b.failure_count + 1,
                        !.last_failure_time = t]
    IN  IF b1.state = HALF_OPEN
        THEN transition_to_open(b1)
        ELSE IF b1.state = CLOSED
        THEN IF b1.failure_count > b1.config.failure_threshold
             THEN transition_to_open(b1)
             ELSE b1
        ELSE b1

on_failure(b, t) ==
    LET b1 == [b EXCEPT !.failure_count = b.failure_count + 1,
                        !.last_failure_time = t]
    IN  IF b1.state = HALF_OPEN
        THEN transition_to_open(b1)
        ELSE IF b1.state = CLOSED
        THEN IF b1.failure_count >= b1.config.failure_threshold
             THEN transition_to_open(b1)
             ELSE b1
        ELSE b1

\* variant: a manual reset keeps the failure counter
reset_keep(b) ==
    [b EXCEPT !.state = CLOSED, !.success_count = 0, !.last_failure_time = None]

reset(b) ==
    [b EXCEPT !.state = CLOSED, !.failure_count = 0, !.success_count = 0,
              !.last_failure_time = None]

\* Outcomes of the operation handed to call(): it returns, it raises a
\* SolrConnectionError, it raises another exception, or it outlives
\* config.timeout (asyncio.TimeoutError from wait_for).
Outcomes == {"ok", "conn_error", "other_error", "timeout"}

\* call(), first half: lines 81-86, up to the await of the operation.
\* admitted = FALSE is _fail_fast raising before the operation is invoked.
call_begin(b, t) ==
    IF b.state = OPEN
    THEN IF should_attempt_reset(b, t)
         THEN [b |-> transition_to_half_open(b), admitted |-> TRUE, remaining |-> 0]
         ELSE [b |-> b, admitted |-> FALSE, remaining |-> fail_fast(b, t)]
    ELSE [b |-> b, admitted |-> TRUE, remaining |-> 0]

\* call(), second half: lines 88-108, the operation has finished with outcome o
call_end(b, t, o) ==
    IF o = "ok" THEN on_success(b) ELSE on_failure(b, t)

\* what call() hands to its caller for outcome o of an invoked operation
call_result(o) ==
    CASE o = "ok"          -> [status |-> "returned", error |-> "none"]
      [] o = "timeout"     -> [status |-> "raised", error |-> "SolrConnectionError"]
      [] o = "conn_error"  -> [status |-> "raised", error |-> "SolrConnectionError"]
      [] o = "other_error" -> [status |-> "raised", error |-> "Exception"]

\* ------------------------------------------------------------------------
\* Stand-alone breaker: one breaker with any configuration, called, reset
\* and left alone while time passes.
\* ------------------------------------------------------------------------
BreakerConfigs ==
    [failure_threshold : 1..MaxFailureThreshold,
     recovery_timeout  : 1..MaxRecoveryTimeout,
     success_threshold : 1..MaxSuccessThreshold]

NoCall == [status |-> "idle", error |-> "none", invoked |-> FALSE, remaining |-> 0,
           outcome |-> "none"]

\* `await asyncio.sleep(30)` of _log_overall_progress_periodically
log_interval == 30

\* no progress task exists
NoTask == [state |-> "none", wake |-> 0, logged |-> 0]

\* asyncio.create_task(self._log_overall_progress_periodically()) at time t:
\* the task sleeps until t + log_interval
create_task(t) == [state |-> "sleeping", wake |-> t + log_interval, logged |-> 0]

\* progress_task.cancel() and `await progress_task`: the task catches the
\* CancelledError and ends
\* variant: the task is left running
cancel_skip(task) == task

cancel(task) == IF task.state = "sleeping" THEN [task EXCEPT !.state = "cancelled"] ELSE task

\* no URLBuilder is being constructed
NoBuilder == [url_pattern |-> <<>>, state |-> "none"]

\* the one name the stand-alone breaker is registered under
CBNames == {"core"}

\* the orchestrator's state before process_all_cores is called
OrchIdle ==
    /\ semaphore = 0
    /\ pc = <<>>
    /\ attempt = <<>>
    /\ errors = <<>>
    /\ total_docs = <<>>
    /\ start_offset = <<>>
    /\ processed_count = <<>>
    /\ gen = <<>>
    /\ task_results = <<>>
    /\ core_progress = <<>>
    /\ overall_stats = [processed |-> 0, total |-> 0, errors_count |-> 0]
    /\ pa_state = "idle"
    /\ processing_result = <<>>
    /\ progress_task = NoTask
    /\ config = [cores |-> 0, parallel_workers |-> 0, base_url |-> "", compress |-> FALSE,
                 test_mode |-> FALSE, docs |-> <<>>, bad_ids |-> {}]
    /\ source = <<>>
    /\ outage = FALSE
    /\ faults_left = 0
    /\ fetch_log = <<>>
    /\ num_found = <<>>
    /\ output_dir = {}
    /\ shutdown_requested = FALSE
    /\ url_builder = NoBuilder

InitCB ==
    /\ now = 1
    /\ \E cfg \in BreakerConfigs :
          circuit_breakers = [n \in CBNames |-> CircuitBreaker(cfg)]
    /\ cb_call = [n \in CBNames |-> NoCall]
    /\ consec_failures = [n \in CBNames |-> 0]
    /\ probe_successes = [n \in CBNames |-> 0]
    /\ OrchIdle

\* call() up to the await: fails fast, or invokes the operation
CBCallBegin(n) ==
    /\ cb_call[n].status # "inflight"
    /\ LET r == call_begin(circuit_breakers[n], now)
       IN  /\ circuit_breakers' = [circuit_breakers EXCEPT ![n] = r.b]
           /\ cb_call' = [cb_call EXCEPT ![n] =
                IF r.admitted
                THEN [status |-> "inflight", error |-> "none", invoked |-> TRUE,
                      remaining |-> 0, outcome |-> "none"]
                ELSE [status |-> "raised", error |-> "SolrConnectionError",
                      invoked |-> FALSE, remaining |-> r.remaining,
                      outcome |-> "none"]]
           /\ probe_successes' = [probe_successes EXCEPT ![n] =
                IF r.b.state = HALF_OPEN /\ circuit_breakers[n].state = OPEN
                THEN 0 ELSE @]
    /\ UNCHANGED <<now, consec_failures>>
    /\ UNCHANGED orchvars

\* the awaited operation finishes with outcome o and call() returns or raises
CBCallEnd(n, o) ==
    /\ cb_call[n].status = "inflight"
    /\ circuit_breakers' = [circuit_breakers EXCEPT ![n] = call_end(@, now, o)]
    /\ cb_call' = [cb_call EXCEPT ![n] =
          [status |-> call_result(o).status, error |-> call_result(o).error,
           invoked |-> TRUE, remaining |-> 0, outcome |-> o]]
    /\ consec_failures' = [consec_failures EXCEPT ![n] = IF o = "ok" THEN 0 ELSE @ + 1]
    /\ probe_successes' = [probe_successes EXCEPT ![n] =
          IF o = "ok" /\ circuit_breakers[n].state = HALF_OPEN THEN @ + 1 ELSE @]
    /\ UNCHANGED now
    /\ UNCHANGED orchvars

CBReset(n) ==
    /\ circuit_breakers' = [circuit_breakers EXCEPT ![n] = reset(@)]
    /\ consec_failures' = [consec_failures EXCEPT ![n] = 0]
    /\ probe_successes' = [probe_successes EXCEPT ![n] = 0]
    /\ UNCHANGED <<now, cb_call>>
    /\ UNCHANGED orchvars

Tick ==
    /\ now < MaxTime
    /\ now' = now + 1
    /\ UNCHANGED <<circuit_breakers, cb_call, consec_failures, probe_successes>>
    /\ UNCHANGED orchvars

NextCB ==
    \/ \E n \in CBNames : CBCallBegin(n)
    \/ \E n \in CBNames, o \in Outcomes : CBCallEnd(n, o)
    \/ \E n \in CBNames : CBReset(n)
    \/ Tick

SpecCB == InitCB /\ [][NextCB]_vars

\* ------------------------------------------------------------------------
\* Configuration handed to the orchestrator (AppConfig)
\* ------------------------------------------------------------------------
Cores == 1..config.cores        \* config.cores, by position; the name is the position
batch_size == 2                 \* SolrCoreConfig.batch_size of every source
max_urls_per_file == 2          \* SitemapConfig.max_urls_per_file
max_retries == 3                \* _perform_health_check_with_retry's default

\* ------------------------------------------------------------------------
\* progress.py: ProgressTracker (every method runs under self.lock)
\* ------------------------------------------------------------------------
RECURSIVE SumOver(_, _, _)
SumOver(f, S, field) ==
    IF S = {} THEN 0
    ELSE LET x == CHOOSE y \in S : TRUE
         IN  f[x][field] + SumOver(f, S \ {x}, field)

\* variant: only the sources still being processed are summed
update_overall_stats_active(cp) ==
    LET active == {n \in DOMAIN cp : cp[n].phase # "completed"} IN
    [processed    |-> SumOver(cp, active, "processed"),
     total        |-> SumOver(cp, active, "total"),
     errors_count |-> SumOver(cp, active, "errors_count")]

update_overall_stats(cp) ==
    [processed    |-> SumOver(cp, DOMAIN cp, "processed"),
     total        |-> SumOver(cp, DOMAIN cp, "total"),
     errors_count |-> SumOver(cp, DOMAIN cp, "errors_count")]

register_core(cp, name, total) ==
    (name :> [processed |-> 0, total |-> total, errors_count |-> 0,
              phase |-> "initializing"]) @@ cp

\* total = None and phase = "None" stand for the omitted arguments
update_core_progress(cp, name, processed, total, phase) ==
    IF name \in DOMAIN cp
    THEN [cp EXCEPT ![name] =
            [processed    |-> processed,
             total        |-> IF total # None THEN total ELSE @.total,
             errors_count |-> @.errors_count,
             phase        |-> IF phase # "None" THEN phase ELSE @.phase]]
    ELSE cp

add_core_error(cp, name) ==
    IF name \in DOMAIN cp
    THEN [cp EXCEPT ![name].errors_count = Min(@ + 1, MaxErrors)]
    ELSE cp

complete_core(cp, name) ==
    IF name \in DOMAIN cp
    THEN [cp EXCEPT ![name].phase = "completed"]
    ELSE cp

\* ------------------------------------------------------------------------
\* Stand-alone progress tracker: its callers register, update, charge and
\* complete sources in any order.
\* ------------------------------------------------------------------------
\* all but the tracker
nontracker == <<now, circuit_breakers, cb_call, consec_failures, probe_successes,
                semaphore, pc, attempt, errors, total_docs, start_offset, processed_count,
                gen, task_results, pa_state, processing_result, progress_task, config, source, outage,
                faults_left, fetch_log, num_found, output_dir, shutdown_requested,
                url_builder>>

TrackerNames == 1..TrackerSources

\* the phases the callers of update_core_progress pass ("None": omitted)
Phases == {"None", "document_extraction", "sitemap_generation"}

InitTracker ==
    /\ now = 1
    /\ circuit_breakers = <<>>
    /\ cb_call = <<>>
    /\ consec_failures = <<>>
    /\ probe_successes = <<>>
    /\ OrchIdle

TrackerRegister(name, total) ==
    /\ core_progress' = register_core(core_progress, name, total)
    /\ overall_stats' = update_overall_stats(core_progress')
    /\ UNCHANGED nontracker

\* the callback register_core returned, or update_core_progress itself
TrackerUpdate(name, processed, total, phase) ==
    /\ core_progress' = update_core_progress(core_progress, name, processed, total, phase)
    /\ overall_stats' = IF name \in DOMAIN core_progress
                        THEN update_overall_stats(core_progress')
                        ELSE overall_stats
    /\ UNCHANGED nontracker

TrackerAddError(name) ==
    /\ core_progress' = add_core_error(core_progress, name)
    /\ overall_stats' = IF name \in DOMAIN core_progress
                        THEN update_overall_stats(core_progress')
                        ELSE overall_stats
    /\ UNCHANGED nontracker

TrackerComplete(name) ==
    /\ core_progress' = complete_core(core_progress, name)
    /\ overall_stats' = IF name \in DOMAIN core_progress
                        THEN update_overall_stats(core_progress')
                        ELSE overall_stats
    /\ UNCHANGED nontracker

NextTracker ==
    \/ \E name \in TrackerNames : \E total \in 0..MaxProgress :
          TrackerRegister(name, total)
    \/ \E name \in TrackerNames : \E processed \in 0..MaxProgress :
          \E total \in {None} \cup 0..MaxProgress : \E phase \in Phases :
             TrackerUpdate(name, processed, total, phase)
    \/ \E name \in TrackerNames : TrackerAddError(name)
    \/ \E name \in TrackerNames : TrackerComplete(name)

SpecTracker == InitTracker /\ [][NextTracker]_vars

\* ------------------------------------------------------------------------
\* circuit_breaker.py: CircuitBreakerManager
\* ------------------------------------------------------------------------
\* an Optional[CircuitBreakerConfig] argument is <<>> (None) or <<cfg>>;
\* cfg or self.default_config
breaker_config(cfg, default_config) ==
    IF cfg = <<>> THEN default_config ELSE cfg[1]

\* variant: a breaker is created on every call
get_circuit_breaker_fresh(cbs, name, cfg, default_config) ==
    (name :> CircuitBreaker(breaker_config(cfg, default_config))) @@ cbs

\* get_circuit_breaker(core_name, cfg) of a manager whose default_config
\* is default_config; the breaker returned is the one under name afterwards
get_circuit_breaker_for(cbs, name, cfg, default_config) ==
    IF name \notin DOMAIN cbs
    THEN (name :> CircuitBreaker(breaker_config(cfg, default_config))) @@ cbs
    ELSE cbs

\* the orchestrator's call: no override, the manager built in __init__
get_circuit_breaker(cbs, name) ==
    get_circuit_breaker_for(cbs, name, <<>>, circuit_config)

\* the manager on its own: two source names, gets with and without an
\* override, and calls through the breakers it handed out
MgrNames == {"solr1", "solr2"}

override_config ==
    [failure_threshold |-> 1, recovery_timeout |-> 1, success_threshold |-> 1]

MgrConfigs == {<<>>, <<override_config>>}

InitMgr ==
    /\ now = 1
    /\ circuit_breakers = <<>>
    /\ cb_call = <<>>
    /\ consec_failures = <<>>
    /\ probe_successes = <<>>
    /\ OrchIdle

MgrGet(name, cfg) ==
    /\ circuit_breakers' =
          get_circuit_breaker_for(circuit_breakers, name, cfg, circuit_config)
    /\ cb_call' = IF name \in DOMAIN cb_call THEN cb_call
                  ELSE (name :> NoCall) @@ cb_call
    /\ consec_failures' = IF name \in DOMAIN consec_failures THEN consec_failures
                          ELSE (name :> 0) @@ consec_failures
    /\ probe_successes' = IF name \in DOMAIN probe_successes THEN probe_successes
                          ELSE (name :> 0) @@ probe_successes
    /\ UNCHANGED now
    /\ UNCHANGED orchvars

MgrCallBegin(name) ==
    /\ name \in DOMAIN circuit_breakers
    /\ CBCallBegin(name)

MgrCallEnd(name, o) ==
    /\ name \in DOMAIN circuit_breakers
    /\ CBCallEnd(name, o)

NextMgr ==
    \/ \E name \in MgrNames, cfg \in MgrConfigs : MgrGet(name, cfg)
    \/ \E name \in MgrNames : MgrCallBegin(name)
    \/ \E name \in MgrNames, o \in Outcomes : MgrCallEnd(name, o)
    \/ Tick

SpecMgr == InitMgr /\ [][NextMgr]_vars

\* ------------------------------------------------------------------------
\* solr_client.py: a request routed through the source's breaker
\* ------------------------------------------------------------------------
\* how a source in state src answers an HTTP request: an "unhealthy" source
\* answers every request, its ping with a status other than OK; during a
\* network outage no request gets through
request_outcome(src, out) ==
    CASE out               -> "conn_error"
      [] src = "up"        -> "ok"
      [] src = "unhealthy" -> "ok"
      [] src = "down"      -> "conn_error"
      [] src = "slow"      -> "timeout"

\* _make_request: circuit_breaker.call(_do_request) with outcome o of the
\* HTTP request; timeout_text says whether the error text contains "timeout"
make_request(b, t, o) ==
    LET r == call_begin(b, t) IN
    IF ~r.admitted
    THEN [b |-> r.b, ok |-> FALSE, invoked |-> FALSE, timeout_text |-> FALSE]
    ELSE [b |-> call_end(r.b, t, o), ok |-> (o = "ok"), invoked |-> TRUE,
          timeout_text |-> (o = "timeout")]

\* get_total_docs: the numFound of the answer, limited in test mode
get_total_docs_actual(actual_count, test_mode) == actual_count

get_total_docs(actual_count, test_mode) ==
    IF test_mode THEN Min(actual_count, 10) ELSE actual_count

\* fetch_docs_batch, lines 183-186: in test mode a call with start >= 10
\* returns [] before any request
sends_request_always(test_mode, start) == TRUE

sends_request(test_mode, start) == ~(test_mode /\ start >= 10)

\* fetch_docs_batch, line 188: the rows asked for
limited_rows_unlimited(test_mode, start, rows) == rows

limited_rows(test_mode, start, rows) ==
    IF test_mode THEN Min(rows, 10 - start) ELSE rows

\* the answer to a call of the client that sends no request
NoRequest(b) == [b |-> b, ok |-> TRUE, invoked |-> FALSE, timeout_text |-> FALSE]

\* the select response: the documents at positions start+1 .. start+rows of a
\* source holding n documents, in ascending id order
fetch_docs_batch_overlap(n, start, rows) ==
    IF start = 0
    THEN [i \in 1..Min(rows, n) |-> i]
    ELSE [i \in 1..(Min(start + rows, n) - Min(start, n) + 1) |-> Min(start, n) + i - 1]

fetch_docs_batch(n, start, rows) ==
    [i \in 1..(Min(start + rows, n) - Min(start, n)) |-> Min(start, n) + i]

\* ------------------------------------------------------------------------
\* sitemap_generator.py: SitemapGenerator
\* ------------------------------------------------------------------------
NewGen == [current_entries |-> <<>>, generated_files |-> <<>>, file_counter |-> 1]

\* the suffixes of a file name as it is first written
xml == <<".xml">>

\* _compress_file, line 246: file_path.with_suffix(file_path.suffix + '.gz')
compress_file(suffixes) == Append(suffixes, ".gz")

\* the suffixes of the path _create_sitemap_file and _create_sitemap_index
\* return, lines 185-190 and 337-342
returned_suffixes == IF config.compress THEN compress_file(xml) ELSE xml

\* _create_sitemap_file: the file written for entries
create_sitemap_file_tail(entries, core_name, file_number) ==
    [kind     |-> "sitemap",
     core     |-> core_name,
     number   |-> IF file_number = 1 /\ Len(entries) < max_urls_per_file
                  THEN 0 ELSE file_number,
     suffixes |-> returned_suffixes,
     entries  |-> Tail(entries)]

create_sitemap_file(entries, core_name, file_number) ==
    [kind     |-> "sitemap",
     core     |-> core_name,
     number   |-> IF file_number = 1 /\ Len(entries) < max_urls_per_file
                  THEN 0 ELSE file_number,
     suffixes |-> returned_suffixes,
     entries  |-> entries]

\* the output directory after _create_sitemap_file or _create_sitemap_index
\* has written file f: open(file_path, 'w'), then _compress_file and
\* file_path.unlink() if compression is on
written_keep(dir, f) ==
    LET path == <<f.kind, f.core, f.number, xml>>
        compressed_path == <<f.kind, f.core, f.number, compress_file(xml)>>
    IN  IF config.compress
        THEN (dir \cup {path}) \cup {compressed_path}
        ELSE dir \cup {path}

written(dir, f) ==
    LET path == <<f.kind, f.core, f.number, xml>>
        compressed_path == <<f.kind, f.core, f.number, compress_file(xml)>>
    IN  IF config.compress
        THEN ((dir \cup {path}) \cup {compressed_path}) \ {path}
        ELSE dir \cup {path}

\* the output directory after the files of a sequence have been written
RECURSIVE stored(_, _)
stored(dir, files) ==
    IF files = <<>> THEN dir ELSE stored(written(dir, Head(files)), Tail(files))


\* SitemapConfig.base_url after rstrip('/'): none, or the site's address
BaseUrls == {"", "https://example.org"}

\* Path.name of a file: its kind, source and number make up the name
file_name(f) == <<f.kind, f.core, f.number, f.suffixes>>

\* the files of new whose names are not among those of old
NewFiles(old, new) ==
    SelectSeq(new, LAMBDA f : \A i \in 1..Len(old) : file_name(old[i]) # file_name(f))

\* the <loc> of a file in an index, lines 304-310
loc(base_url, name) ==
    IF base_url # "" THEN <<base_url, "/", name>> ELSE <<name>>

\* _create_sitemap_index: the index written for sitemap_files
create_sitemap_index_bare(sitemap_files, core_name) ==
    [kind     |-> "sitemap_index",
     core     |-> core_name,
     number   |-> 0,
     suffixes |-> returned_suffixes,
     entries  |-> [i \in 1..Len(sitemap_files) |-> <<file_name(sitemap_files[i])>>]]

create_sitemap_index(sitemap_files, core_name) ==
    [kind     |-> "sitemap_index",
     core     |-> core_name,
     number   |-> 0,
     suffixes |-> returned_suffixes,
     entries  |-> [i \in 1..Len(sitemap_files) |->
                     loc(config.base_url, file_name(sitemap_files[i]))]]

\* the body of generate_sitemaps' `async for` for the entries es that one
\* batch yields; wfail: writing a file fails in this step
RECURSIVE consume_late(_, _, _, _)
consume_late(g, es, core_name, wfail) ==
    IF es = <<>>
    THEN [g |-> g, failed |-> FALSE]
    ELSE LET cur == Append(g.current_entries, Head(es)) IN
         IF Len(cur) > max_urls_per_file
         THEN IF wfail
              THEN [g |-> [g EXCEPT !.current_entries = cur], failed |-> TRUE]
              ELSE consume_late([current_entries |-> <<>>,
                            generated_files |-> Append(g.generated_files,
                                create_sitemap_file(cur, core_name, g.file_counter)),
                            file_counter    |-> g.file_counter + 1],
                           Tail(es), core_name, wfail)
         ELSE consume_late([g EXCEPT !.current_entries = cur], Tail(es), core_name, wfail)

\* variant: the buffer is not emptied after a file is written
RECURSIVE consume_keep(_, _, _, _)
consume_keep(g, es, core_name, wfail) ==
    IF es = <<>>
    THEN [g |-> g, failed |-> FALSE]
    ELSE LET cur == Append(g.current_entries, Head(es)) IN
         IF Len(cur) >= max_urls_per_file
         THEN IF wfail
              THEN [g |-> [g EXCEPT !.current_entries = cur], failed |-> TRUE]
              ELSE consume_keep([current_entries |-> cur,
                            generated_files |-> Append(g.generated_files,
                                create_sitemap_file(cur, core_name, g.file_counter)),
                            file_counter    |-> g.file_counter + 1],
                           Tail(es), core_name, wfail)
         ELSE consume_keep([g EXCEPT !.current_entries = cur], Tail(es), core_name, wfail)

RECURSIVE consume(_, _, _, _)
consume(g, es, core_name, wfail) ==
    IF es = <<>>
    THEN [g |-> g, failed |-> FALSE]
    ELSE LET cur == Append(g.current_entries, Head(es)) IN
         IF Len(cur) >= max_urls_per_file
         THEN IF wfail
              THEN [g |-> [g EXCEPT !.current_entries = cur], failed |-> TRUE]
              ELSE consume([current_entries |-> <<>>,
                            generated_files |-> Append(g.generated_files,
                                create_sitemap_file(cur, core_name, g.file_counter)),
                            file_counter    |-> g.file_counter + 1],
                           Tail(es), core_name, wfail)
         ELSE consume([g EXCEPT !.current_entries = cur], Tail(es), core_name, wfail)

\* generate_sitemaps after the entries are exhausted: lines 106-140
finish_sitemaps_noremainder(g, core_name, wfail) ==
    IF Len(g.generated_files) > 1 /\ wfail
    THEN [files |-> <<>>, failed |-> TRUE]
    ELSE IF Len(g.generated_files) > 1
    THEN [files |-> <<create_sitemap_index(g.generated_files, core_name)>>
                      \o g.generated_files,
          failed |-> FALSE]
    ELSE [files |-> g.generated_files, failed |-> FALSE]

finish_sitemaps(g, core_name, wfail) ==
    LET g1 == IF g.current_entries # <<>>
              THEN [g EXCEPT !.generated_files = Append(@,
                        create_sitemap_file(g.current_entries, core_name, g.file_counter))]
              ELSE g
        writes == g.current_entries # <<>> \/ Len(g1.generated_files) > 1
    IN  IF writes /\ wfail
        THEN [files |-> <<>>, failed |-> TRUE]
        ELSE IF Len(g1.generated_files) > 1
        THEN [files |-> <<create_sitemap_index(g1.generated_files, core_name)>>
                          \o g1.generated_files,
              failed |-> FALSE]
        ELSE [files |-> g1.generated_files, failed |-> FALSE]

\* ------------------------------------------------------------------------
\* url_builder.py: URLBuilder. A pattern is a sequence of tokens: schemes, a
\* host or path segment, the path separator and placeholders.
\* ------------------------------------------------------------------------
Tokens == {"http://", "https://", "ftp://", "host", "/", "{id}", "{lang}"}

Patterns == UNION {[1..n -> Tokens] : n \in 0..MaxPatternLen}

\* _placeholder_regex.findall(url_pattern), line 43
placeholders(url_pattern) ==
    {url_pattern[i] : i \in DOMAIN url_pattern} \cap {"{id}", "{lang}"}

\* url_pattern.replace('{id}', 'test-id-123'), line 108
replace_id(url_pattern, text) ==
    [i \in DOMAIN url_pattern |-> IF url_pattern[i] = "{id}" THEN text ELSE url_pattern[i]]

\* _is_valid_url: urlparse finds the scheme http or https and a netloc, the
\* text between the scheme and the next "/"
is_valid_url(url) ==
    /\ Len(url) >= 2
    /\ url[1] \in {"http://", "https://"}
    /\ url[2] # "/"

\* variant: placeholders other than {id} are let through
validate_pattern_lenient(url_pattern) ==
    /\ url_pattern # <<>>
    /\ url_pattern[1] \in {"http://", "https://"}
    /\ \E i \in DOMAIN url_pattern : url_pattern[i] = "{id}"
    /\ is_valid_url(replace_id(url_pattern, "test-id-123"))

\* validate_pattern: TRUE where it returns, FALSE where it raises
\* ConfigurationError
validate_pattern(url_pattern) ==
    /\ url_pattern # <<>>
    /\ url_pattern[1] \in {"http://", "https://"}
    /\ \E i \in DOMAIN url_pattern : url_pattern[i] = "{id}"
    /\ placeholders(url_pattern) \ {"{id}"} = {}
    /\ is_valid_url(replace_id(url_pattern, "test-id-123"))

\* all but the URLBuilder
nonbuilder == <<now, circuit_breakers, cb_call, consec_failures, probe_successes,
                semaphore, pc, attempt, errors, total_docs, start_offset, processed_count,
                gen, task_results, core_progress, overall_stats, pa_state,
                processing_result, progress_task, config, source, outage, faults_left, fetch_log,
                num_found, output_dir, shutdown_requested>>

\* a caller is about to construct a URLBuilder from some pattern
InitUrl ==
    /\ now = 1
    /\ circuit_breakers = <<>>
    /\ cb_call = <<>>
    /\ consec_failures = <<>>
    /\ probe_successes = <<>>
    /\ semaphore = 0
    /\ pc = <<>>
    /\ attempt = <<>>
    /\ errors = <<>>
    /\ total_docs = <<>>
    /\ start_offset = <<>>
    /\ processed_count = <<>>
    /\ gen = <<>>
    /\ task_results = <<>>
    /\ core_progress = <<>>
    /\ overall_stats = [processed |-> 0, total |-> 0, errors_count |-> 0]
    /\ pa_state = "idle"
    /\ processing_result = <<>>
    /\ progress_task = NoTask
    /\ config = [cores |-> 0, parallel_workers |-> 0, base_url |-> "", compress |-> FALSE,
                 test_mode |-> FALSE, docs |-> <<>>, bad_ids |-> {}]
    /\ source = <<>>
    /\ outage = FALSE
    /\ faults_left = 0
    /\ fetch_log = <<>>
    /\ num_found = <<>>
    /\ output_dir = {}
    /\ shutdown_requested = FALSE
    /\ \E url_pattern \in Patterns :
          url_builder = [url_pattern |-> url_pattern, state |-> "new"]

\* URLBuilder.__init__
Construct ==
    /\ url_builder.state = "new"
    /\ url_builder' = [url_builder EXCEPT !.state =
          IF validate_pattern(url_builder.url_pattern)
          THEN "constructed" ELSE "ConfigurationError"]
    /\ UNCHANGED nonbuilder

NextUrl == Construct

SpecUrl == InitUrl /\ [][NextUrl]_vars

\* ------------------------------------------------------------------------
\* orchestrator.py: ProcessingOrchestrator
\* ------------------------------------------------------------------------
\* asyncio.Semaphore
locked_late(v) == v < 0

locked(v) == v = 0
acquire(v) == v - 1
release(v) == v + 1

Pending == [kind |-> "pending"]

CoreResult(name, total, processed, files, errs) ==
    [kind |-> "result", core_name |-> name, total_docs |-> total,
     processed_docs |-> processed, sitemap_files |-> files, errors |-> errs]

\* process_core's `except Exception` handler, lines 333-354
core_failed_result_counted(name, errs) ==
    CoreResult(name, total_docs[name], total_docs[name], <<>>,
               Append(errs, "Core processing failed"))

core_failed_result(name, errs) ==
    CoreResult(name, 0, 0, <<>>, Append(errs, "Core processing failed"))

\* process_core's `except SolrConnectionError` handler, lines 262-281
\* variant: the failure is not added to the errors
count_failed_result_silent(name, errs) == CoreResult(name, 0, 0, <<>>, errs)

count_failed_result(name, errs) ==
    CoreResult(name, 0, 0, <<>>, Append(errs, "Failed to get document count"))

\* offsets from OffsetCap on are past the end of every source and past the
\* window of the timeout retry: the pagination loop treats them all alike
OffsetCap ==
    Max(3 * batch_size, Max(2 * max_urls_per_file + 1,
                            IF config.test_mode THEN MaxDocsTest
                            ELSE Max(MaxDocs, MaxDocsMulti)))

\* start_offset += batch_size after a failed batch; the offsets past
\* OffsetCap are followed as OffsetCap, OffsetCap + batch_size, OffsetCap, ...
skip_batch(offset) ==
    IF offset + batch_size > OffsetCap + batch_size
    THEN OffsetCap
    ELSE offset + batch_size

\* the condition of the retry, line 436
should_retry_whatever(timeout_text, offset) == offset < 3 * batch_size

should_retry(timeout_text, offset) == timeout_text /\ offset < 3 * batch_size

\* the reduced batch size of the retry, line 438
reduced_batch_size(bs) == Max(100, bs \div 2)

\* no fetch_docs_batch call yet; clean: none of the calls has failed
NoFetch == [offsets |-> <<>>, clean |-> TRUE]

\* the log after a fetch_docs_batch call at offset that returned
fetch_returned(log, offset) ==
    IF log.clean THEN [log EXCEPT !.offsets = Append(@, offset)] ELSE log

\* the log after a fetch_docs_batch call that raised
fetch_raised(log) == [offsets |-> <<>>, clean |-> FALSE]

\* `if len(documents) < core_config.batch_size: break`, line 421
last_batch_never(documents, rows) == FALSE

last_batch(documents, rows) == Len(documents) < rows

\* process_all_cores has created one task per configured source
Started(cfg, faults) ==
    /\ now = 1
    /\ circuit_breakers = <<>>
    /\ cb_call = <<>>
    /\ consec_failures = <<>>
    /\ probe_successes = <<>>
    /\ config = cfg
    /\ semaphore = cfg.parallel_workers
    /\ pc = [c \in 1..cfg.cores |-> "waiting"]
    /\ attempt = [c \in 1..cfg.cores |-> 0]
    /\ errors = [c \in 1..cfg.cores |-> <<>>]
    /\ total_docs = [c \in 1..cfg.cores |-> 0]
    /\ start_offset = [c \in 1..cfg.cores |-> 0]
    /\ processed_count = [c \in 1..cfg.cores |-> 0]
    /\ gen = [c \in 1..cfg.cores |-> NewGen]
    /\ task_results = [c \in 1..cfg.cores |-> Pending]
    /\ core_progress = <<>>
    /\ overall_stats = [processed |-> 0, total |-> 0, errors_count |-> 0]
    /\ pa_state = "running"
    /\ processing_result = <<>>
    /\ progress_task = create_task(now)
    /\ source = [c \in 1..cfg.cores |-> "up"]
    /\ outage = FALSE
    /\ faults_left = faults
    /\ fetch_log = [c \in 1..cfg.cores |-> NoFetch]
    /\ num_found = [c \in 1..cfg.cores |-> 0]
    /\ output_dir = {}
    /\ shutdown_requested = FALSE
    /\ url_builder = NoBuilder

\* several sources, fewer workers than sources
Init ==
    \E w \in 1..MaxWorkers :
        Started([cores |-> NumCores, parallel_workers |-> w,
                 base_url |-> "https://example.org", compress |-> FALSE,
                 test_mode |-> FALSE, docs |-> <<>>, bad_ids |-> {}], MaxFaults)

\* a single source, the assembler with or without a base url, with or
\* without compression
InitPipe ==
    \E base_url \in BaseUrls : \E compress \in BOOLEAN :
        Started([cores |-> 1, parallel_workers |-> 1, base_url |-> base_url,
                 compress |-> compress, test_mode |-> FALSE, docs |-> <<>>,
                 bad_ids |-> {}], PipeFaults)

\* a single source some of whose documents have a blank id, without a base
\* url and without compression
InitConv ==
    \E bad_ids \in SUBSET (1..MaxDocs) :
        Started([cores |-> 1, parallel_workers |-> 1, base_url |-> "",
                 compress |-> FALSE, test_mode |-> FALSE, docs |-> <<>>,
                 bad_ids |-> bad_ids], ConvFaults)

\* a single source read in test mode
InitTest ==
    Started([cores |-> 1, parallel_workers |-> 1, base_url |-> "https://example.org",
             compress |-> FALSE, test_mode |-> TRUE, docs |-> <<>>, bad_ids |-> {}], TestFaults)

\* the end-to-end run: three sources holding no document, fewer documents
\* than a file takes, and two full files and a part of a third; two workers
E2EDocs == <<0, max_urls_per_file - 1, 2 * max_urls_per_file + 1>>

InitE2E ==
    Started([cores |-> 3, parallel_workers |-> 2, base_url |-> "https://example.org",
             compress |-> FALSE, test_mode |-> FALSE, docs |-> E2EDocs,
             bad_ids |-> {}], E2EFaults)

\* asyncio.run drives the tasks of the run while process_all_cores has not
\* ended and the process has not exited
loop_runs_on(state) == state \in {"running", "interrupted"}

loop_runs(state) == state = "running"

\* a call of the client of source c: _make_request, or none where the client
\* answers by itself (sends = FALSE)
client_request(c, sends) ==
    IF sends
    THEN make_request(circuit_breakers[c], now, request_outcome(source[c], outage))
    ELSE NoRequest(circuit_breakers[c])

ghosts == <<cb_call, consec_failures, probe_successes, fetch_log>>
main == <<pa_state, processing_result, progress_task, config, outage>>
locals == <<attempt, errors, total_docs, start_offset, processed_count, gen>>
\* what lies outside the orchestrator: the service manager's flag and a
\* URLBuilder constructed on its own
apart == <<shutdown_requested, url_builder>>

\* the task of source c ends with result res: process_core returns and
\* `async with self.semaphore` releases the permit
\* (the locals of process_core and of its generators are gone, and the source
\* is no longer observed)
Return(c, res) ==
    /\ pc' = [pc EXCEPT ![c] = "done"]
    /\ task_results' = [task_results EXCEPT ![c] = res]
    /\ semaphore' = release(semaphore)
    /\ attempt' = [attempt EXCEPT ![c] = 0]
    /\ errors' = [errors EXCEPT ![c] = <<>>]
    /\ total_docs' = [total_docs EXCEPT ![c] = 0]
    /\ start_offset' = [start_offset EXCEPT ![c] = 0]
    /\ processed_count' = [processed_count EXCEPT ![c] = 0]
    /\ gen' = [gen EXCEPT ![c] = NewGen]
    /\ num_found' = [num_found EXCEPT ![c] = 0]
    /\ source' = [source EXCEPT ![c] = "up"]

\* process_core's `except Exception` handler
Fail(c, cp) ==
    /\ Return(c, core_failed_result(c, errors[c]))
    /\ core_progress' = complete_core(add_core_error(cp, c), c)
    /\ overall_stats' = update_overall_stats(core_progress')

\* _process_core_with_semaphore: the task of source c gets a permit (waiters
\* are served in the order the tasks were created) and process_core runs up
\* to the first health check
Acquire(c) ==
    /\ c \in Cores
    /\ loop_runs(pa_state)
    /\ pc[c] = "waiting"
    /\ \A d \in Cores : d < c => pc[d] # "waiting"
    /\ ~locked(semaphore)
    /\ semaphore' = acquire(semaphore)
    /\ pc' = [pc EXCEPT ![c] = "health"]
    /\ circuit_breakers' = get_circuit_breaker(circuit_breakers, c)
    /\ UNCHANGED <<now, ghosts, main, locals, task_results, core_progress,
                   overall_stats, source, faults_left, num_found, output_dir, apart>>

\* `for attempt in range(max_retries + 1)`: another attempt follows the one
\* numbered attempt_no (from 0)
\* variant: one more pass of the loop
next_attempt_extra(attempt_no) == attempt_no < max_retries + 1

next_attempt(attempt_no) == attempt_no < max_retries

\* one attempt of _perform_health_check_with_retry
HealthCheck(c) ==
    /\ c \in Cores
    /\ loop_runs(pa_state)
    /\ pc[c] = "health"
    /\ LET r == client_request(c, TRUE)
           passed == r.ok /\ source[c] # "unhealthy"
       IN  /\ circuit_breakers' = [circuit_breakers EXCEPT ![c] = r.b]
           /\ IF passed
              THEN /\ pc' = [pc EXCEPT ![c] = "count"]
                   /\ UNCHANGED <<attempt, errors>>
              ELSE IF next_attempt(attempt[c])
              THEN /\ attempt' = [attempt EXCEPT ![c] = @ + 1]
                   /\ UNCHANGED <<pc, errors>>
              ELSE /\ pc' = [pc EXCEPT ![c] = "count"]
                   /\ errors' = [errors EXCEPT ![c] =
                                   Append(@, "Core health check failed after retries")]
                   /\ UNCHANGED attempt
    /\ UNCHANGED <<now, ghosts, main, semaphore, total_docs, start_offset,
                   processed_count, gen, task_results, core_progress, overall_stats,
                   source, faults_left, num_found, output_dir, apart>>

\* get_total_docs fails: the request raised, or the breaker failed fast
CountFails(c) ==
    /\ c \in Cores
    /\ loop_runs(pa_state)
    /\ pc[c] = "count"
    /\ LET r == client_request(c, TRUE) IN
       /\ ~r.ok
       /\ circuit_breakers' = [circuit_breakers EXCEPT ![c] = r.b]
       /\ Return(c, count_failed_result(c, errors[c]))
       /\ core_progress' = add_core_error(core_progress, c)
       /\ overall_stats' = IF c \in DOMAIN core_progress
                           THEN update_overall_stats(core_progress')
                           ELSE overall_stats
    /\ UNCHANGED <<now, ghosts, main, faults_left, output_dir, apart>>

\* `if total_docs == 0`, line 283
no_documents_never(total) == FALSE

no_documents(total) == total = 0

\* largest numFound a source of this run reports
DocsBound ==
    IF config.test_mode THEN MaxDocsTest
    ELSE IF config.cores = 1 THEN MaxDocs ELSE MaxDocsMulti

\* largest numFound of any run
MaxNumFound ==
    Max(2 * max_urls_per_file + 1, Max(MaxDocsTest, Max(MaxDocs, MaxDocsMulti)))

\* the numFound source c may report
SourceSizes(c) ==
    IF config.docs # <<>> THEN {config.docs[c]} ELSE 0..DocsBound

\* the count request finds n documents; the source is registered with what
\* get_total_docs makes of it; an empty source is
\* done; otherwise the URL builder is constructed (bad_pattern: the
\* configured pattern does not pass validate_pattern), the phase is set to
\* sitemap_generation and generate_sitemaps starts pulling entries, up to
\* the first batch request
CountReturns(c, n, bad_pattern) ==
    /\ c \in Cores
    /\ loop_runs(pa_state)
    /\ pc[c] = "count"
    /\ n \in SourceSizes(c)
    /\ bad_pattern => (n > 0 /\ faults_left > 0)
    /\ LET r == client_request(c, TRUE)
           total == get_total_docs(n, config.test_mode)
           cp1 == update_core_progress(register_core(core_progress, c, total),
                                       c, 0, total, "document_extraction")
       IN
       /\ r.ok
       /\ circuit_breakers' = [circuit_breakers EXCEPT ![c] = r.b]
       /\ IF no_documents(total)
          THEN /\ Return(c, CoreResult(c, 0, 0, <<>>, errors[c]))
               /\ core_progress' = complete_core(cp1, c)
               /\ overall_stats' = update_overall_stats(core_progress')
               /\ UNCHANGED faults_left
          ELSE IF bad_pattern
          THEN /\ Fail(c, cp1)
               /\ faults_left' = faults_left - 1
          ELSE /\ pc' = [pc EXCEPT ![c] = "extract"]
               /\ total_docs' = [total_docs EXCEPT ![c] = total]
               /\ num_found' = [num_found EXCEPT ![c] = n]
               /\ core_progress' = update_core_progress(cp1, c, total, total,
                                                        "sitemap_generation")
               /\ overall_stats' = update_overall_stats(core_progress')
               /\ UNCHANGED <<task_results, semaphore, attempt, errors, start_offset,
                              processed_count, gen, source, faults_left>>
    /\ UNCHANGED <<now, ghosts, main, output_dir, apart>>

\* URLBuilder.build_url returns for document doc (it raises ValueError for
\* an id that is empty after strip())
build_url_ok(doc) == doc \notin config.bad_ids

\* the entries the `for doc in documents` loop yields, in order
converted_all(documents) == documents

converted(documents) == SelectSeq(documents, LAMBDA doc : build_url_ok(doc))

\* the documents of a batch whose conversion has raised by the time the
\* entry of document last has been yielded (ids ascend within a batch)
failed_conversions(documents, last) ==
    Cardinality({i \in 1..Len(documents) :
                    ~build_url_ok(documents[i]) /\ documents[i] < last})

\* add_core_error called k times
RECURSIVE add_core_errors(_, _, _)
add_core_errors(cp, name, k) ==
    IF k = 0 THEN cp ELSE add_core_errors(add_core_error(cp, name), name, k - 1)

\* the pagination loop has ended: generate_sitemaps writes what is left and
\* the index, and process_core returns
Finish(c, g, cp, wfail) ==
    LET f == finish_sitemaps(g, c, wfail) IN
    IF f.failed
    THEN Fail(c, cp)
    ELSE /\ Return(c, CoreResult(c, total_docs[c], total_docs[c], f.files, errors[c]))
         /\ core_progress' = complete_core(cp, c)
         /\ overall_stats' = update_overall_stats(core_progress')

\* one pass of the pagination loop whose fetch_docs_batch returns: lines
\* 381-423, with the consumer's work on the entries the batch yields;
\* wfail: a file write of this pass fails
FetchReturns(c, wfail) ==
    /\ c \in Cores
    /\ loop_runs(pa_state)
    /\ pc[c] = "extract"
    /\ LET sends == sends_request(config.test_mode, start_offset[c])
           r == client_request(c, sends)
           documents == IF sends
                        THEN fetch_docs_batch(num_found[c], start_offset[c],
                                 limited_rows(config.test_mode, start_offset[c], batch_size))
                        ELSE <<>>
           entries == converted(documents)
           fed == consume(gen[c], entries, c, wfail)
           count == processed_count[c] + Len(entries)
           cp1 == update_core_progress(
                     add_core_errors(core_progress, c,
                                     failed_conversions(documents, MaxNumFound + 1)),
                     c, count, None, "document_extraction")
           ends == documents = <<>> \/ last_batch(documents, batch_size)
           fin == finish_sitemaps(fed.g, c, wfail)
           failed == fed.failed \/ (ends /\ fin.failed)
       IN
       /\ r.ok
       /\ wfail => (failed /\ faults_left > 0)
       /\ faults_left' = IF wfail THEN faults_left - 1 ELSE faults_left
       /\ circuit_breakers' = [circuit_breakers EXCEPT ![c] = r.b]
       /\ IF documents = <<>>
          THEN Finish(c, gen[c], core_progress, wfail)
          ELSE IF fed.failed
          THEN Fail(c, add_core_errors(core_progress, c,
                          failed_conversions(documents,
                              fed.g.current_entries[Len(fed.g.current_entries)])))
          ELSE IF last_batch(documents, batch_size)
          THEN Finish(c, fed.g, cp1, wfail)
          ELSE /\ gen' = [gen EXCEPT ![c] = fed.g]
               /\ processed_count' = [processed_count EXCEPT ![c] = count]
               /\ start_offset' = [start_offset EXCEPT ![c] = @ + Len(documents)]
               /\ core_progress' = cp1
               /\ overall_stats' = update_overall_stats(core_progress')
               /\ UNCHANGED <<pc, task_results, semaphore, attempt, errors, total_docs,
                              source, num_found>>
       /\ output_dir' =
             IF failed THEN output_dir
             ELSE stored(output_dir,
                         NewFiles(gen[c].generated_files,
                                  IF ends THEN fin.files ELSE fed.g.generated_files))
       /\ fetch_log' = [fetch_log EXCEPT ![c] = fetch_returned(@, start_offset[c])]
    /\ UNCHANGED <<now, cb_call, consec_failures, probe_successes, main, apart>>

\* one pass of the pagination loop whose fetch_docs_batch raises a
\* SolrConnectionError: lines 425-444 and 487-489
FetchFails(c) ==
    /\ c \in Cores
    /\ loop_runs(pa_state)
    /\ pc[c] = "extract"
    /\ LET r == client_request(c, sends_request(config.test_mode, start_offset[c])) IN
       /\ ~r.ok
       /\ circuit_breakers' = [circuit_breakers EXCEPT ![c] = r.b]
       /\ core_progress' = add_core_error(core_progress, c)
       /\ overall_stats' = update_overall_stats(core_progress')
       /\ IF should_retry(r.timeout_text, start_offset[c])
          THEN /\ pc' = [pc EXCEPT ![c] = "retry"]
               /\ UNCHANGED start_offset
          ELSE /\ start_offset' = [start_offset EXCEPT ![c] = skip_batch(@)]
               /\ UNCHANGED pc
       /\ fetch_log' = [fetch_log EXCEPT ![c] = fetch_raised(@)]
    /\ UNCHANGED <<now, cb_call, consec_failures, probe_successes, main, semaphore,
                   attempt, errors, total_docs, processed_count, gen, task_results,
                   source, faults_left, num_found, output_dir, apart>>

\* the retry with the reduced batch size returns: lines 446-478
RetryReturns(c, wfail) ==
    /\ c \in Cores
    /\ loop_runs(pa_state)
    /\ pc[c] = "retry"
    /\ LET sends == sends_request(config.test_mode, start_offset[c])
           r == client_request(c, sends)
           documents == IF sends
                        THEN fetch_docs_batch(num_found[c], start_offset[c],
                                 limited_rows(config.test_mode, start_offset[c],
                                              reduced_batch_size(batch_size)))
                        ELSE <<>>
           entries == converted(documents)
           fed == consume(gen[c], entries, c, wfail)
           count == processed_count[c] + Len(entries)
       IN
       /\ r.ok
       /\ wfail => (fed.failed /\ faults_left > 0)
       /\ faults_left' = IF wfail THEN faults_left - 1 ELSE faults_left
       /\ circuit_breakers' = [circuit_breakers EXCEPT ![c] = r.b]
       /\ IF fed.failed
          THEN Fail(c, core_progress)
          ELSE /\ gen' = [gen EXCEPT ![c] = fed.g]
               /\ processed_count' = [processed_count EXCEPT ![c] = count]
               /\ start_offset' = [start_offset EXCEPT ![c] = @ + Len(documents)]
               /\ pc' = [pc EXCEPT ![c] = "extract"]
               /\ core_progress' = update_core_progress(core_progress, c, count, None,
                                                        "document_extraction")
               /\ overall_stats' = update_overall_stats(core_progress')
               /\ UNCHANGED <<task_results, semaphore, attempt, errors, total_docs,
                              source, num_found>>
       /\ output_dir' =
             IF fed.failed THEN output_dir
             ELSE stored(output_dir, NewFiles(gen[c].generated_files, fed.g.generated_files))
    /\ UNCHANGED <<now, ghosts, main, apart>>

\* the retry with the reduced batch size raises: lines 480-489
RetryFails(c) ==
    /\ c \in Cores
    /\ loop_runs(pa_state)
    /\ pc[c] = "retry"
    /\ LET r == client_request(c, sends_request(config.test_mode, start_offset[c])) IN
       /\ ~r.ok
       /\ circuit_breakers' = [circuit_breakers EXCEPT ![c] = r.b]
       /\ start_offset' = [start_offset EXCEPT ![c] = skip_batch(@)]
       /\ pc' = [pc EXCEPT ![c] = "extract"]
    /\ UNCHANGED <<now, ghosts, main, semaphore, attempt, errors, total_docs,
                   processed_count, gen, task_results, core_progress, overall_stats,
                   source, faults_left, num_found, output_dir, apart>>

\* the remote core of a running pipeline changes the way it answers
SourceChanges(c, src) ==
    /\ c \in Cores
    /\ pa_state = "running"
    /\ pc[c] \notin {"waiting", "done"}
    /\ source[c] # src
    /\ src # "up" => faults_left > 0
    /\ source' = [source EXCEPT ![c] = src]
    /\ faults_left' = IF src # "up" THEN faults_left - 1 ELSE faults_left
    /\ UNCHANGED <<now, circuit_breakers, ghosts, main, semaphore, pc, locals,
                   task_results, core_progress, overall_stats, num_found, output_dir,
                   apart>>

\* process_all_cores lines 103-124: a task that ended with an exception
\* becomes a failed CoreResult
processed_results_successful(results) ==
    SelectSeq(results, LAMBDA r : r.kind = "result" /\ r.errors = <<>>)

processed_results(results) ==
    [i \in 1..Len(results) |->
        IF results[i].kind = "exception"
        THEN CoreResult(i, 0, 0, <<>>, <<"Processing failed">>)
        ELSE results[i]]

RECURSIVE SumSeq(_, _)
SumSeq(sq, field) ==
    IF sq = <<>> THEN 0 ELSE Head(sq)[field] + SumSeq(Tail(sq), field)

RECURSIVE SumFiles(_)
SumFiles(sq) ==
    IF sq = <<>> THEN 0 ELSE Len(Head(sq).sitemap_files) + SumFiles(Tail(sq))

\* _calculate_overall_result; success_rate is total_urls / attempted * 100,
\* kept as the fraction rate_num / rate_den (0 / 1 when nothing was attempted)
calculate_overall_result_ratio(core_results) ==
    LET total_urls == SumSeq(core_results, "processed_docs")
        total_docs_attempted == SumSeq(core_results, "total_docs")
    IN  [core_results |-> core_results,
         total_urls   |-> total_urls,
         total_files  |-> SumFiles(core_results),
         rate_num     |-> IF total_docs_attempted > 0 THEN total_urls ELSE 0,
         rate_den     |-> IF total_docs_attempted > 0 THEN total_docs_attempted ELSE 1]

calculate_overall_result(core_results) ==
    LET total_urls == SumSeq(core_results, "processed_docs")
        total_docs_attempted == SumSeq(core_results, "total_docs")
    IN  [core_results |-> core_results,
         total_urls   |-> total_urls,
         total_files  |-> SumFiles(core_results),
         rate_num     |-> IF total_docs_attempted > 0 THEN total_urls * 100 ELSE 0,
         rate_den     |-> IF total_docs_attempted > 0 THEN total_docs_attempted ELSE 1]

\* process_all_cores after gather: every task has ended; an exception in the
\* aggregation (a result that is no CoreResult) is raised as ProcessingError
ProcessAllReturns ==
    /\ pa_state = "running"
    /\ \A c \in Cores : pc[c] = "done"
    /\ LET results == processed_results([c \in Cores |-> task_results[c]]) IN
       IF \A i \in 1..Len(results) : results[i].kind = "result"
       THEN /\ processing_result' = calculate_overall_result(results)
            /\ pa_state' = "returned"
       ELSE /\ pa_state' = "raised"
            /\ UNCHANGED processing_result
    /\ progress_task' = cancel(progress_task)
    /\ UNCHANGED <<now, circuit_breakers, ghosts, semaphore, pc, locals, task_results,
                   core_progress, overall_stats, config, source, outage, faults_left,
                   num_found, output_dir, apart>>

\* the cool-down of an open breaker passes while the run goes on
Wait ==
    /\ pa_state = "running"
    /\ \E n \in DOMAIN circuit_breakers : circuit_breakers[n].state = OPEN
    /\ now + circuit_config.recovery_timeout <= MaxClock
    /\ now' = now + circuit_config.recovery_timeout
    /\ UNCHANGED <<circuit_breakers, ghosts>>
    /\ UNCHANGED orchvars

\* the network goes down or comes back
OutageChanges ==
    /\ pa_state = "running"
    /\ ~outage => faults_left > 0
    /\ outage' = ~outage
    /\ faults_left' = IF ~outage THEN faults_left - 1 ELSE faults_left
    /\ UNCHANGED <<now, circuit_breakers, ghosts, pa_state, processing_result, progress_task,
                   config,
                   semaphore, pc, locals, task_results, core_progress, overall_stats,
                   source, num_found, output_dir, apart>>

SourceStates == {"up", "down", "slow", "unhealthy"}

PipelineStep(c) ==
    \/ Acquire(c)
    \/ HealthCheck(c)
    \/ CountFails(c)
    \/ \E n \in 0..MaxNumFound : \E bad_pattern \in BOOLEAN :
          CountReturns(c, n, bad_pattern)
    \/ \E wfail \in BOOLEAN : FetchReturns(c, wfail)
    \/ FetchFails(c)
    \/ \E wfail \in BOOLEAN : RetryReturns(c, wfail)
    \/ RetryFails(c)

Next ==
    \/ \E c \in 1..NumCores : PipelineStep(c)
    \/ \E c \in 1..NumCores : \E src \in SourceStates : SourceChanges(c, src)
    \/ OutageChanges
    \/ ProcessAllReturns
    \/ Wait

Spec == Init /\ [][Next]_vars

SpecPipe == InitPipe /\ [][Next]_vars

\* one pass of the loop of _log_overall_progress_periodically: the sleep is
\* over, log_overall_progress emits the overall progress, and the task
\* sleeps again
LogOverallProgress ==
    /\ progress_task.state = "sleeping"
    /\ now >= progress_task.wake
    /\ progress_task' = [progress_task EXCEPT !.wake = now + log_interval,
                                               !.logged = @ + 1]
    /\ UNCHANGED <<now, circuit_breakers, ghosts, pa_state, processing_result, config,
                   outage, semaphore, pc, locals, task_results, core_progress,
                   overall_stats, source, faults_left, num_found, output_dir, apart>>

\* two sources and one worker: a run together with its progress task
InitProgress ==
    Started([cores |-> 2, parallel_workers |-> 1, base_url |-> "https://example.org",
             compress |-> FALSE, test_mode |-> FALSE, docs |-> <<>>,
             bad_ids |-> {}], MaxFaults)

NextProgress ==
    \/ Next
    \/ LogOverallProgress

SpecProgress == InitProgress /\ [][NextProgress]_vars

\* a run of one source holding documents that cannot be converted
SpecConv == InitConv /\ [][Next]_vars

\* a run of one source in test mode
SpecTest == InitTest /\ [][Next]_vars

SpecE2E == InitE2E /\ [][Next]_vars

\* service.py, signal_handler: SIGINT or SIGTERM arrives while asyncio.run
\* drives the run; the handler sets the flag, cleans up and calls sys.exit,
\* and the SystemExit ends asyncio.run: the tasks are cancelled where they
\* stand and the process exits
ShutdownSignal ==
    /\ pa_state = "running"
    /\ shutdown_requested' = TRUE
    /\ pa_state' = "interrupted"
    /\ UNCHANGED <<now, circuit_breakers, ghosts, processing_result, progress_task, config, outage,
                   semaphore, pc, locals, task_results, core_progress, overall_stats,
                   source, faults_left, num_found, output_dir, url_builder>>

NextSignal ==
    \/ Next
    \/ ShutdownSignal

\* two sources and one worker: a run during which a shutdown signal may
\* arrive
InitSignal ==
    Started([cores |-> 2, parallel_workers |-> 1, base_url |-> "https://example.org",
             compress |-> FALSE, test_mode |-> FALSE, docs |-> <<>>,
             bad_ids |-> {}], MaxFaults)

SpecSignal == InitSignal /\ [][NextSignal]_vars

\* the event loop runs every task that can run, and process_all_cores
\* continues once gather is complete; the remote sources and the clock owe
\* nothing
FairSpec ==
    /\ Init
    /\ [][Next]_vars
    /\ \A c \in 1..NumCores : WF_vars(PipelineStep(c))
    /\ WF_vars(ProcessAllReturns)

\* ------------------------------------------------------------------------
\* Properties of the orchestrator (checked under Spec, C2 under FairSpec)
\* ------------------------------------------------------------------------
\* the pipelines that hold a permit: past the semaphore and not yet done
Active == {c \in Cores : pc[c] \notin {"waiting", "done"}}

\* C1: under every interleaving at most parallel_workers pipelines are
\* between entering the health check and done; each of them holds one of
\* the parallel_workers permits and the semaphore holds the others.
C1_AtMostWorkersActive ==
    /\ Cardinality(Active) <= config.parallel_workers
    /\ semaphore >= 0
    /\ Cardinality(Active) + semaphore = config.parallel_workers

\* C1 witness: two workers, three sources; two pipelines run (one checks
\* health, one pages through its source) and the third source waits
C1_Witness ==
    /\ config.parallel_workers = 2
    /\ Cardinality(Active) = 2
    /\ \E c \in Cores : pc[c] = "waiting"
    /\ \E c \in Cores : pc[c] = "health"
    /\ \E c \in Cores : pc[c] = "extract"

\* C2 as stated: every pipeline (hence every admitted one, and every waiting
\* one after its admission) eventually is done, whatever its source does.
C2_EveryPipelineTerminates ==
    \A c \in 1..NumCores : <>(pc[c] = "done")

\* C3: whatever failures the sources show, process_all_cores does not
\* raise, and the ProcessingResult it returns holds exactly one CoreResult
\* per configured source, in configuration order: the result of that
\* source's task. (Whether the pipelines end, so that it returns at all, is
\* the subject of C2.)
C3_OneResultPerSource ==
    /\ pa_state # "raised"
    /\ pa_state = "returned" =>
          /\ Len(processing_result.core_results) = config.cores
          /\ \A i \in 1..config.cores :
                /\ processing_result.core_results[i].kind = "result"
                /\ processing_result.core_results[i].core_name = i
                /\ processing_result.core_results[i] = task_results[i]

\* C3 witness: the network was down and every one of the three sources
\* failed; the run returned three results, each with errors and no documents
C3_Witness ==
    /\ pa_state = "returned"
    /\ config.cores = 3
    /\ Len(processing_result.core_results) = 3
    /\ \A i \in 1..Len(processing_result.core_results) :
          /\ processing_result.core_results[i].errors # <<>>
          /\ processing_result.core_results[i].processed_docs = 0
    /\ processing_result.rate_num = 0

\* this step is the count request of pipeline c raising
CountRaises(c) ==
    /\ pc[c] = "count"
    /\ pc'[c] # "count"
    /\ ~make_request(circuit_breakers[c], now, request_outcome(source[c], outage)).ok

\* this step is pipeline c running into a rejected url pattern or a failed
\* file write
ProcessingRaises(c) ==
    /\ pc[c] \in {"count", "extract", "retry"}
    /\ pc'[c] # pc[c] \/ task_results'[c] # task_results[c]
    /\ faults_left' < faults_left
    /\ outage' = outage
    /\ \A d \in Cores : source'[d] \in {source[d], "up"}

\* this step leaves pipeline d as it is
Untouched(d) ==
    /\ pc'[d] = pc[d]
    /\ task_results'[d] = task_results[d]
    /\ attempt'[d] = attempt[d]
    /\ errors'[d] = errors[d]
    /\ total_docs'[d] = total_docs[d]
    /\ start_offset'[d] = start_offset[d]
    /\ processed_count'[d] = processed_count[d]
    /\ gen'[d] = gen[d]
    /\ d \in DOMAIN circuit_breakers => circuit_breakers'[d] = circuit_breakers[d]
    /\ d \in DOMAIN core_progress => core_progress'[d] = core_progress[d]

\* C4: an exception that escapes the steps of one pipeline (the count
\* request raising, the url pattern rejected, a file write failing) takes
\* that pipeline to done in the same step, with a result of zero processed
\* documents, no files and the errors accumulated so far plus the new one;
\* the step changes no sibling's position, locals, breaker, progress or
\* result.
C4_ExceptionEndsOnlyThatPipeline ==
    [][\A c \in Cores :
         (CountRaises(c) \/ ProcessingRaises(c)) =>
            /\ pc'[c] = "done"
            /\ task_results'[c].kind = "result"
            /\ task_results'[c].core_name = c
            /\ task_results'[c].processed_docs = 0
            /\ task_results'[c].sitemap_files = <<>>
            /\ \/ CountRaises(c) /\ task_results'[c].errors =
                                       Append(errors[c], "Failed to get document count")
               \/ ProcessingRaises(c) /\ task_results'[c].errors =
                                       Append(errors[c], "Core processing failed")
            /\ \A d \in Cores \ {c} : Untouched(d)]_vars

\* C4 witness: one source failed its health check and then its count request,
\* and its result carries both errors, while a sibling with a document to
\* fetch goes on paging
C4_Witness ==
    \E c, d \in Cores :
        /\ c # d
        /\ pc[c] = "done"
        /\ task_results[c].processed_docs = 0
        /\ task_results[c].sitemap_files = <<>>
        /\ task_results[c].errors = <<"Core health check failed after retries",
                                      "Failed to get document count">>
        /\ pc[d] = "extract"
        /\ total_docs[d] > 0
        /\ task_results[d] = Pending

\* ------------------------------------------------------------------------
\* Properties of the circuit breaker (checked under SpecCB)
\* ------------------------------------------------------------------------
\* this step is the end of an invoked call on breaker n
CallEnds(n) == cb_call[n].status = "inflight" /\ cb_call'[n].status # "inflight"
\* ... that failed: the operation raised or outlived the per-call timeout
CallFails(n) == CallEnds(n) /\ cb_call'[n].outcome # "ok"
CallSucceeds(n) == CallEnds(n) /\ cb_call'[n].outcome = "ok"
\* this step is a call() that starts (and either fails fast or invokes)
CallStarts(n) == cb_call[n].status # "inflight" /\ cb_call'[n] # cb_call[n]
Names == DOMAIN circuit_breakers

\* C5: from CLOSED the breaker becomes OPEN exactly at the failed call (an
\* exception or a per-call timeout alike) that brings the number of failures
\* since the last success or reset to failure_threshold; in CLOSED
\* failure_count is that number and is below the threshold, and an OPEN
\* breaker always has failure_count >= failure_threshold.
C5_OpensExactlyAtThreshold ==
    /\ [](\A n \in Names :
            LET b == circuit_breakers[n] IN
            /\ b.state = CLOSED =>
                  /\ b.failure_count = consec_failures[n]
                  /\ b.failure_count < b.config.failure_threshold
            /\ b.state = OPEN => b.failure_count >= b.config.failure_threshold)
    /\ [][\A n \in Names :
            circuit_breakers[n].state = CLOSED =>
               (circuit_breakers'[n].state = OPEN
                  <=> /\ CallFails(n)
                      /\ consec_failures'[n] = circuit_breakers[n].config.failure_threshold)]_vars

\* C5 as stated: the breaker opens from CLOSED exactly at the failed call
\* that reaches the threshold, and is never OPEN while fewer than
\* failure_threshold failures have accumulated since the last success or
\* reset.
C5_Original ==
    /\ [](\A n \in Names :
            circuit_breakers[n].state = OPEN =>
               consec_failures[n] >= circuit_breakers[n].config.failure_threshold)
    /\ [][\A n \in Names :
            circuit_breakers[n].state = CLOSED =>
               (circuit_breakers'[n].state = OPEN
                  <=> /\ CallFails(n)
                      /\ circuit_breakers'[n].failure_count =
                            circuit_breakers[n].config.failure_threshold)]_vars

\* C5 witness: a breaker with threshold 3 opened by a per-call timeout, its
\* third failure in a row
C5_Witness ==
    \E n \in Names :
        /\ circuit_breakers[n].state = OPEN
        /\ circuit_breakers[n].config.failure_threshold = 3
        /\ consec_failures[n] = 3
        /\ circuit_breakers[n].failure_count = 3
        /\ cb_call[n].outcome = "timeout"

\* the first probe: a call that ends in HALF_OPEN before any probe succeeded
FirstProbeEnds(n) ==
    /\ CallEnds(n)
    /\ circuit_breakers[n].state = HALF_OPEN
    /\ probe_successes[n] = 0

\* C6 as stated: after the single probe that follows the cool-down the
\* breaker is either CLOSED (probe succeeded) or OPEN (probe failed).
C6_Original ==
    [][\A n \in Names :
         FirstProbeEnds(n) =>
            /\ cb_call'[n].outcome = "ok" => circuit_breakers'[n].state = CLOSED
            /\ cb_call'[n].outcome # "ok" => circuit_breakers'[n].state = OPEN]_vars

\* C6 amended: after the cool-down the next call is admitted as a probe; a
\* failed probe re-opens the breaker at once; a successful first probe closes
\* it exactly when success_threshold = 1 and otherwise leaves it HALF_OPEN
\* with success_count 1, where further probes are admitted.
C6_ProbeDecides ==
    [][\A n \in Names :
         LET b == circuit_breakers[n]
             b2 == circuit_breakers'[n] IN
         /\ (b.state = OPEN /\ CallStarts(n)
                /\ now - b.last_failure_time >= b.config.recovery_timeout)
              => (b2.state = HALF_OPEN /\ cb_call'[n].status = "inflight")
         /\ FirstProbeEnds(n) =>
              /\ cb_call'[n].outcome # "ok" => b2.state = OPEN
              /\ cb_call'[n].outcome = "ok" =>
                    IF b.config.success_threshold = 1
                    THEN b2.state = CLOSED
                    ELSE b2.state = HALF_OPEN /\ b2.success_count = 1
         /\ (b.state = HALF_OPEN /\ CallStarts(n))
              => (b2.state = HALF_OPEN /\ cb_call'[n].status = "inflight")]_vars

\* C6 witness: the first probe succeeded and the breaker is still HALF_OPEN
C6_Witness ==
    \E n \in Names :
        /\ circuit_breakers[n].state = HALF_OPEN
        /\ circuit_breakers[n].success_count = 1
        /\ probe_successes[n] = 1
        /\ cb_call[n].status = "returned"

\* C7: an OPEN breaker called before recovery_timeout has elapsed since
\* last_failure_time raises a SolrConnectionError that carries the remaining
\* cool-down, does not invoke the operation and changes nothing of the
\* breaker; called at or after recovery_timeout it becomes HALF_OPEN and
\* invokes the operation.
C7_FailFastUntilRecovery ==
    [][\A n \in Names :
         LET b == circuit_breakers[n]
             elapsed == now - b.last_failure_time IN
         (b.state = OPEN /\ CallStarts(n)) =>
            IF elapsed < b.config.recovery_timeout
            THEN /\ cb_call'[n].status = "raised"
                 /\ cb_call'[n].error = "SolrConnectionError"
                 /\ cb_call'[n].invoked = FALSE
                 /\ cb_call'[n].remaining = b.config.recovery_timeout - elapsed
                 /\ circuit_breakers'[n] = b
            ELSE /\ cb_call'[n].status = "inflight"
                 /\ cb_call'[n].invoked = TRUE
                 /\ circuit_breakers'[n].state = HALF_OPEN]_vars

\* C7 witness: a call failed fast with half of a two-tick cool-down left
C7_Witness ==
    \E n \in Names :
        /\ circuit_breakers[n].state = OPEN
        /\ circuit_breakers[n].config.recovery_timeout = 2
        /\ cb_call[n].status = "raised"
        /\ cb_call[n].invoked = FALSE
        /\ cb_call[n].remaining = 1

\* C8: a call ending in HALF_OPEN closes the breaker exactly when it is the
\* success_threshold-th success since HALF_OPEN was entered; the breaker then
\* has failure_count = success_count = 0; an earlier success leaves it
\* HALF_OPEN.
C8_ClosesAfterSuccessThreshold ==
    [][\A n \in Names :
         LET b == circuit_breakers[n]
             b2 == circuit_breakers'[n] IN
         (b.state = HALF_OPEN /\ CallEnds(n)) =>
            /\ b2.state = CLOSED
                 <=> (CallSucceeds(n) /\ probe_successes'[n] = b.config.success_threshold)
            /\ b2.state = CLOSED => (b2.failure_count = 0 /\ b2.success_count = 0)
            /\ (CallSucceeds(n) /\ probe_successes'[n] < b.config.success_threshold)
                 => (b2.state = HALF_OPEN /\ b2.success_count = probe_successes'[n])]_vars

\* C8 witness: closed by the second of two successful probes
C8_Witness ==
    \E n \in Names :
        /\ circuit_breakers[n].state = CLOSED
        /\ circuit_breakers[n].config.success_threshold = 2
        /\ probe_successes[n] = 2
        /\ circuit_breakers[n].failure_count = 0
        /\ cb_call[n].outcome = "ok"

\* C9: a call that fails in HALF_OPEN (exception or per-call timeout) opens
\* the breaker in that step whatever success_count was; success_count is 0
\* and last_failure_time is the time of that failure, so no call is admitted
\* before a full recovery_timeout has passed again.
C9_HalfOpenFailureReopens ==
    [][\A n \in Names :
         LET b == circuit_breakers[n]
             b2 == circuit_breakers'[n] IN
         (b.state = HALF_OPEN /\ CallFails(n)) =>
            /\ b2.state = OPEN
            /\ b2.success_count = 0
            /\ b2.last_failure_time = now
            /\ \A t \in now..(now + b.config.recovery_timeout - 1) :
                  ~call_begin(b2, t).admitted
            /\ call_begin(b2, now + b.config.recovery_timeout).admitted]_vars

\* C9 witness: re-opened by a timed-out probe after one probe had succeeded
C9_Witness ==
    \E n \in Names :
        /\ circuit_breakers[n].state = OPEN
        /\ probe_successes[n] = 1
        /\ cb_call[n].outcome = "timeout"
        /\ circuit_breakers[n].last_failure_time = now
        /\ circuit_breakers[n].failure_count > circuit_breakers[n].config.failure_threshold

\* C10: a successful call in CLOSED leaves the breaker CLOSED with
\* failure_count 0, and CLOSED opens only on failure_threshold failures in a
\* row: failures with a success between them do not add up.
C10_SuccessResetsFailures ==
    [][\A n \in Names :
         LET b == circuit_breakers[n]
             b2 == circuit_breakers'[n] IN
         /\ (b.state = CLOSED /\ CallSucceeds(n))
               => (b2.state = CLOSED /\ b2.failure_count = 0)
         /\ (b.state = CLOSED /\ CallFails(n))
               => b2.failure_count = consec_failures[n] + 1
         /\ (b.state = CLOSED /\ b2.state = OPEN)
               => consec_failures'[n] >= b.config.failure_threshold]_vars

\* C10 witness: at the first instant (so never OPEN yet) a success zeroed the
\* counter of a breaker that had already recorded a failure
C10_Witness ==
    \E n \in Names :
        /\ now = 1
        /\ circuit_breakers[n].state = CLOSED
        /\ circuit_breakers[n].config.failure_threshold >= 2
        /\ circuit_breakers[n].last_failure_time = 1
        /\ circuit_breakers[n].failure_count = 0
        /\ cb_call[n].outcome = "ok"

\* ------------------------------------------------------------------------
\* Outcomes of call() (checked under SpecCB)
\* ------------------------------------------------------------------------
\* C11: call() either returns the operation's result or fails with a
\* SolrConnectionError: whenever a call has raised, fast or after invoking
\* the operation, the error it raised is a SolrConnectionError.
C11_ReturnsOrConnectionError ==
    \A n \in Names :
        cb_call[n].status = "raised" => cb_call[n].error = "SolrConnectionError"

\* ------------------------------------------------------------------------
\* Health check, pagination and files of one pipeline (checked under SpecPipe)
\* ------------------------------------------------------------------------
\* C12: failed health checks do not block extraction: when every health-check
\* attempt of a pipeline has failed and its source answers requests, the
\* count request is answered, so the pipeline does not end there with
\* "Failed to get document count" and zero processed documents.
C12_FailedHealthChecksDoNotBlock ==
    [][\A c \in Cores :
         (/\ pc[c] = "count"
          /\ errors[c] = <<"Core health check failed after retries">>
          /\ request_outcome(source[c], outage) = "ok"
          /\ pc'[c] = "done")
         => task_results'[c].errors #
               <<"Core health check failed after retries",
                 "Failed to get document count">>]_vars

\* the offsets 0, batch_size, ..., k * batch_size
FullOffsets(k) == [i \in 1..(k + 1) |-> (i - 1) * batch_size]

Answered(c) ==
    /\ pc[c] \in {"extract", "retry"}
    /\ make_request(circuit_breakers[c], now, request_outcome(source[c], outage)).ok
    /\ pc'[c] # pc[c] \/ start_offset'[c] # start_offset[c]

\* the documents of that answer
Fetched(c) ==
    fetch_docs_batch(total_docs[c], start_offset[c],
                     IF pc[c] = "extract" THEN batch_size
                     ELSE reduced_batch_size(batch_size))

\* ... and it is the step in which process_core returns its files
Completes(c) ==
    /\ Answered(c)
    /\ pc'[c] = "done"
    /\ task_results'[c].errors = errors[c]

DataFiles(files) == SelectSeq(files, LAMBDA f : f.kind = "sitemap")
IndexFiles(files) == SelectSeq(files, LAMBDA f : f.kind = "sitemap_index")

\* C14: a pipeline whose generate_sitemaps received n entries in all returns
\* exactly ceil(n / max_urls_per_file) data files (none when n = 0), and
\* one index file if that number exceeds 1, none otherwise.
C14_CeilFilesAndIndex ==
    [][\A c \in Cores :
         Completes(c) =>
            LET n == processed_count[c] + Len(Fetched(c))
                files == task_results'[c].sitemap_files
            IN  /\ Len(DataFiles(files)) =
                      (n + max_urls_per_file - 1) \div max_urls_per_file
                /\ Len(IndexFiles(files)) = IF Len(DataFiles(files)) > 1 THEN 1 ELSE 0
                /\ Len(files) = Len(DataFiles(files)) + Len(IndexFiles(files))]_vars

\* C14 witness: 5 entries with a cap of 2: three data files and an index
C14_Witness ==
    \E c \in Cores :
        /\ pc[c] = "done"
        /\ max_urls_per_file = 2
        /\ task_results[c].processed_docs = 5
        /\ Len(DataFiles(task_results[c].sitemap_files)) = 3
        /\ Len(IndexFiles(task_results[c].sitemap_files)) = 1

\* C15: in the files a pipeline returns, a single data file has the simple
\* name sitemap_{source}.xml (number 0 here); several data files have the
\* names sitemap_{source}_{i}.xml with i = 1, 2, ... in creation order and
\* come with an index named sitemap_index_{source}.xml.
C15_FileNames ==
    \A c \in Cores :
        task_results[c].kind = "result" =>
           LET data == DataFiles(task_results[c].sitemap_files)
               index == IndexFiles(task_results[c].sitemap_files)
           IN  /\ \A i \in 1..Len(data) : data[i].core = c
               /\ Len(data) = 1 => data[1].number = 0
               /\ Len(data) > 1 =>
                     /\ \A i \in 1..Len(data) : data[i].number = i
                     /\ Len(index) = 1
                     /\ index[1].core = c

RECURSIVE Flatten(_)
\* the entries of files, read file after file
Flatten(files) ==
    IF files = <<>> THEN <<>> ELSE Head(files).entries \o Flatten(Tail(files))

\* the entries generate_sitemaps has taken in: written to files or buffered
Contents(g) == Flatten(g.generated_files) \o g.current_entries

\* C16: every batch of entries a pipeline produces is taken into its files in
\* arrival order, after the entries taken in before, nothing lost and
\* nothing twice; the files written while entries arrive are full and the
\* buffer is not; the data files returned hold, in file-number order, exactly
\* the entries produced, each between 1 and max_urls_per_file entries, and
\* only the last one fewer than max_urls_per_file.
C16_FilesHoldTheEntriesInOrder ==
    /\ [](\A c \in Cores :
            /\ Len(gen[c].current_entries) < max_urls_per_file
            /\ \A i \in 1..Len(gen[c].generated_files) :
                  /\ Len(gen[c].generated_files[i].entries) = max_urls_per_file
                  /\ gen[c].generated_files[i].number = i)
    /\ [][\A c \in Cores :
            /\ (Answered(c) /\ pc'[c] # "done")
                  => Contents(gen'[c]) = Contents(gen[c]) \o Fetched(c)
            /\ Completes(c) =>
                  LET data == DataFiles(task_results'[c].sitemap_files) IN
                  /\ Flatten(data) = Contents(gen[c]) \o Fetched(c)
                  /\ \A i \in 1..Len(data) :
                        /\ Len(data[i].entries) >= 1
                        /\ Len(data[i].entries) <= max_urls_per_file
                        /\ i < Len(data) => Len(data[i].entries) = max_urls_per_file]_vars

\* C16 witness: the 5 entries of a source in files of 2, 2 and 1 entries
C16_Witness ==
    \E c \in Cores :
        /\ pc[c] = "done"
        /\ Flatten(DataFiles(task_results[c].sitemap_files)) = <<1, 2, 3, 4, 5>>
        /\ [i \in 1..3 |-> Len(DataFiles(task_results[c].sitemap_files)[i].entries)]
              = <<2, 2, 1>>

\* C17: when a pipeline has written more than one data file, the list it
\* returns is the index followed by the data files in creation order, and
\* the index references every data file once, in that order, by
\* base_url/name when a base url is configured and by the bare name
\* otherwise; with at most one data file the list holds no index.
C17_IndexFirstAndComplete ==
    [][\A c \in Cores :
         Completes(c) =>
            LET files == task_results'[c].sitemap_files
                data == DataFiles(files)
                earlier == gen[c].generated_files
            IN  /\ Len(earlier) <= Len(data)
                /\ SubSeq(data, 1, Len(earlier)) = earlier
                /\ \A i \in 1..Len(data) : i > 1 => data[i].number = i
                /\ IF Len(data) > 1
                   THEN /\ files = <<files[1]>> \o data
                        /\ files[1].kind = "sitemap_index"
                        /\ files[1].entries =
                              [i \in 1..Len(data) |->
                                 IF config.base_url # ""
                                 THEN <<config.base_url, "/", file_name(data[i])>>
                                 ELSE <<file_name(data[i])>>]
                   ELSE files = data]_vars

\* C17 witness: a base url is configured and the returned list is an index
\* followed by three data files, the index naming each by its url
C17_Witness ==
    \E c \in Cores :
        /\ pc[c] = "done"
        /\ config.base_url = "https://example.org"
        /\ Len(task_results[c].sitemap_files) = 4
        /\ task_results[c].sitemap_files[1].kind = "sitemap_index"
        /\ task_results[c].sitemap_files[1].entries[3] =
              <<"https://example.org", "/", <<"sitemap", c, 3, <<".xml">>>>>>
        /\ task_results[c].sitemap_files[4].number = 3

\* sq is strictly ascending
Ascending(sq) == \A i \in 1..(Len(sq) - 1) : sq[i] < sq[i + 1]

RECURSIVE SumResults(_, _)
\* the sum of field over the results of the tasks of sources 1..i
SumResults(i, field) ==
    IF i = 0 THEN 0 ELSE task_results[i][field] + SumResults(i - 1, field)

\* C19: the success rate of a returned ProcessingResult (the fraction
\* rate_num / rate_den) is the sum of processed_docs over the sum of
\* total_docs of all results times 100, is 0 when the sum of total_docs is
\* 0, and lies between 0 and 100.
C19_SuccessRate ==
    pa_state = "returned" =>
       LET processed == SumResults(config.cores, "processed_docs")
           total == SumResults(config.cores, "total_docs")
           r == processing_result
       IN  /\ r.rate_den > 0
           /\ total > 0 => r.rate_num * total = processed * 100 * r.rate_den
           /\ total = 0 => r.rate_num = 0
           /\ r.rate_num >= 0
           /\ r.rate_num <= 100 * r.rate_den
           /\ r.total_urls = processed

\* C19 witness: one source failed and reported no documents, the other two
\* delivered their one document each: 2 of 2 documents, rate 100
C19_Witness ==
    /\ pa_state = "returned"
    /\ \E i \in Cores : task_results[i].errors # <<>> /\ task_results[i].total_docs = 0
    /\ SumResults(config.cores, "total_docs") = 2
    /\ processing_result.total_urls = 2
    /\ processing_result.rate_num = 100 * processing_result.rate_den

\* ------------------------------------------------------------------------
\* The end-to-end run (checked under SpecE2E)
\* ------------------------------------------------------------------------
\* the number of entries of each file of a list
Sizes(files) == [i \in 1..Len(files) |-> Len(files[i].entries)]

\* C20: three healthy sources (no fault injected) of 0, fewer than
\* max_urls_per_file, and 2 * max_urls_per_file + 1 documents, two workers
\* (0, 5 and 120000 documents with a cap of 50000, scaled to the cap of the
\* model): source 1 ends with no file and no error; source 2 with one file
\* holding all its entries; source 3 with an index and three data files of
\* max_urls_per_file, max_urls_per_file and the remaining entries; the
\* success rate is 100 and no error is recorded for any document.
C20_EndToEnd ==
    (pa_state = "returned" /\ faults_left = E2EFaults) =>
       LET r == processing_result.core_results IN
       /\ Len(r) = 3
       /\ r[1].sitemap_files = <<>> /\ r[1].errors = <<>>
       /\ Len(r[2].sitemap_files) = 1
       /\ Sizes(DataFiles(r[2].sitemap_files)) = <<E2EDocs[2]>>
       /\ r[2].errors = <<>>
       /\ Len(r[3].sitemap_files) = 4
       /\ Len(IndexFiles(r[3].sitemap_files)) = 1
       /\ Sizes(DataFiles(r[3].sitemap_files)) =
             <<max_urls_per_file, max_urls_per_file, E2EDocs[3] - 2 * max_urls_per_file>>
       /\ r[3].errors = <<>>
       /\ processing_result.total_urls = E2EDocs[2] + E2EDocs[3]
       /\ processing_result.rate_num = 100 * processing_result.rate_den
       /\ overall_stats.errors_count = 0
       /\ \A c \in DOMAIN core_progress : core_progress[c].errors_count = 0

\* C20 witness: the run with healthy sources has returned; the third source
\* delivered 5 entries in files of 2, 2 and 1
C20_Witness ==
    /\ pa_state = "returned"
    /\ faults_left = E2EFaults
    /\ config.parallel_workers = 2
    /\ Sizes(DataFiles(task_results[3].sitemap_files)) = <<2, 2, 1>>
    /\ Sizes(DataFiles(task_results[2].sitemap_files)) = <<1>>
    /\ task_results[1].total_docs = 0

\* ------------------------------------------------------------------------
\* Properties of the progress tracker
\* ------------------------------------------------------------------------
\* C21: whatever the pipelines running side by side have reported to the
\* tracker (register_core, update_core_progress, add_core_error,
\* complete_core, in any interleaving), the overall processed, total and
\* errors_count are the sums of the values of the registered sources.
C21_OverallIsSumOfSources ==
    /\ overall_stats.processed =
          SumOver(core_progress, DOMAIN core_progress, "processed")
    /\ overall_stats.total =
          SumOver(core_progress, DOMAIN core_progress, "total")
    /\ overall_stats.errors_count =
          SumOver(core_progress, DOMAIN core_progress, "errors_count")

\* C21 witness: two pipelines run side by side, both registered and neither
\* complete; one has reported documents, the other an error, a third source
\* is complete, and the overall numbers hold the reports of all of them
C21_Witness ==
    \E c, d, e \in DOMAIN core_progress :
        /\ c # d /\ e \notin {c, d}
        /\ pc[c] = "extract" /\ pc[d] = "extract"
        /\ core_progress[c].processed > 0
        /\ core_progress[d].errors_count > 0
        /\ core_progress[e].phase = "completed"
        /\ core_progress[e].total > 0
        /\ overall_stats.processed >= 2
        /\ overall_stats.total = 3
        /\ overall_stats.errors_count = 1

\* C22: a source the tracker holds as completed is frozen: an
\* update_core_progress or add_core_error call for it leaves its processed,
\* total, errors_count and phase as they are.
C22_FrozenOnceComplete ==
    [][\A name \in TrackerNames :
         (/\ name \in DOMAIN core_progress
          /\ core_progress[name].phase = "completed"
          /\ \/ TrackerAddError(name)
             \/ \E processed \in 0..MaxProgress : \E total \in {None} \cup 0..MaxProgress :
                   \E phase \in Phases : TrackerUpdate(name, processed, total, phase))
         => core_progress'[name] = core_progress[name]]_vars

\* ------------------------------------------------------------------------
\* Properties of the URL builder (checked under SpecUrl)
\* ------------------------------------------------------------------------
\* how often token occurs in url_pattern
Occurrences(url_pattern, token) ==
    Cardinality({i \in DOMAIN url_pattern : url_pattern[i] = token})

C25_OneBreakerPerName ==
    [][/\ \A name \in MgrNames, cfg \in MgrConfigs :
            MgrGet(name, cfg) =>
               IF name \in DOMAIN circuit_breakers
               THEN circuit_breakers' = circuit_breakers
               ELSE /\ DOMAIN circuit_breakers' = DOMAIN circuit_breakers \cup {name}
                    /\ circuit_breakers'[name] =
                          [config |-> IF cfg = <<>> THEN circuit_config
                                      ELSE override_config,
                           state |-> CLOSED, failure_count |-> 0,
                           success_count |-> 0, last_failure_time |-> None]
                    /\ \A other \in DOMAIN circuit_breakers :
                          circuit_breakers'[other] = circuit_breakers[other]
       /\ \A name \in MgrNames :
            (MgrCallBegin(name) \/ \E o \in Outcomes : MgrCallEnd(name, o)) =>
               /\ DOMAIN circuit_breakers' = DOMAIN circuit_breakers
               /\ \A other \in DOMAIN circuit_breakers \ {name} :
                     circuit_breakers'[other] = circuit_breakers[other]]_vars

\* both names are held, one breaker made from the override and open after a
\* failed call, the other made from the default and still untouched
C25_Witness ==
    /\ DOMAIN circuit_breakers = MgrNames
    /\ circuit_breakers["solr1"].config = override_config
    /\ circuit_breakers["solr1"].state = OPEN
    /\ circuit_breakers["solr1"].failure_count = 1
    /\ circuit_breakers["solr2"] = CircuitBreaker(circuit_config)

\* the suffixes of a compressed artifact and of an uncompressed one
GzSuffixes == <<".xml", ".gz">>
XmlSuffixes == <<".xml">>

\* ------------------------------------------------------------------------
\* C26: with compression enabled, every file a finished source returns has
\* a path ending in .gz and is in the output directory under that name,
\* while its .xml is not; the index references the data files by their .gz
\* names; and the output directory holds nothing but .gz artifacts. With
\* compression disabled the output directory holds no .gz artifact.
\* ------------------------------------------------------------------------
C26_CompressionReplacesArtifact ==
    /\ \A c \in Cores :
          (pc[c] = "done" /\ config.compress) =>
             LET files == task_results[c].sitemap_files IN
             /\ \A i \in 1..Len(files) :
                   /\ files[i].suffixes[Len(files[i].suffixes)] = ".gz"
                   /\ <<files[i].kind, c, files[i].number, GzSuffixes>> \in output_dir
                   /\ <<files[i].kind, c, files[i].number, XmlSuffixes>> \notin output_dir
             /\ \A i \in 1..Len(files) :
                   files[i].kind = "sitemap_index" =>
                      /\ Len(files[i].entries) = Len(files) - 1
                      /\ \A k \in 1..Len(files[i].entries) :
                            LET name == <<"sitemap", c, k, GzSuffixes>> IN
                            files[i].entries[k] =
                               IF config.base_url = "" THEN <<name>>
                               ELSE <<config.base_url, "/", name>>
    /\ config.compress => \A path \in output_dir : path[4] = GzSuffixes
    /\ ~config.compress => \A path \in output_dir : path[4] = XmlSuffixes

\* a compressed run has returned an index and three data files
C26_Witness ==
    \E c \in Cores :
        /\ pc[c] = "done"
        /\ config.compress
        /\ Len(task_results[c].sitemap_files) = 4
        /\ task_results[c].sitemap_files[1].kind = "sitemap_index"
        /\ output_dir = {<<"sitemap_index", c, 0, GzSuffixes>>}
                           \cup {<<"sitemap", c, k, GzSuffixes>> : k \in 1..3}

\* the documents of source c that have been emitted so far
Emitted(c) ==
    IF pc[c] = "done" THEN Flatten(DataFiles(task_results[c].sitemap_files))
    ELSE Contents(gen[c])

\* ------------------------------------------------------------------------
\* C27: in test mode the count a source is registered with is
\* min(numFound, 10); a fetch at an offset of 10 or more sends no request
\* (the breaker records nothing and the call cannot fail, whatever the
\* state of the source) and returns no record, which ends the pagination;
\* a fetch at a lower offset adds at most min(limit, 10 - offset) records,
\* limit being batch_size, or the reduced size for a retry; and the
\* documents emitted for a source are never more than 10, all among its
\* first 10.
\* ------------------------------------------------------------------------
C27_TestModeBudget ==
    /\ [](\A c \in Cores :
            /\ pc[c] \in {"extract", "retry"} => total_docs[c] = Min(num_found[c], 10)
            /\ Len(Emitted(c)) <= 10
            /\ \A i \in 1..Len(Emitted(c)) : Emitted(c)[i] \in 1..10)
    /\ [][\A c \in Cores :
            /\ (pc[c] \in {"extract", "retry"} /\ start_offset[c] >= 10) =>
                  /\ ~ENABLED FetchFails(c)
                  /\ ~ENABLED RetryFails(c)
                  /\ (\E wfail \in BOOLEAN : FetchReturns(c, wfail) \/ RetryReturns(c, wfail)) =>
                        /\ circuit_breakers'[c] = circuit_breakers[c]
                        /\ Len(Emitted(c)') <= Len(Emitted(c))
                        /\ pc[c] = "extract" => pc'[c] = "done"
            /\ (pc[c] = "extract" /\ start_offset[c] < 10) =>
                  Len(Emitted(c)') - Len(Emitted(c))
                     <= Min(batch_size, 10 - start_offset[c])
            /\ (pc[c] = "retry" /\ start_offset[c] < 10) =>
                  Len(Emitted(c)') - Len(Emitted(c))
                     <= Min(Max(100, batch_size \div 2), 10 - start_offset[c])]_vars

\* a source of more than 10 documents has been read in test mode: it was
\* registered with 10 and exactly its first 10 documents were emitted
C27_Witness ==
    \E c \in Cores :
        /\ config.test_mode
        /\ pc[c] = "done"
        /\ task_results[c].total_docs = 10
        /\ Emitted(c) = <<1, 2, 3, 4, 5, 6, 7, 8, 9, 10>>

\* ------------------------------------------------------------------------
\* C28: when a batch request at offset o raises a connection error, the
\* pipeline retries if and only if the error text says timeout and
\* o < 3 * batch_size; the retry is one request at the same offset for
\* max(100, batch_size div 2) records; a retry that returns moves the
\* offset forward by the number of records it brought; a failure that is
\* not retried, and a retry that fails, move the offset forward by exactly
\* batch_size; and the offset never moves back, so nothing in a skipped
\* window is requested later (offsets past OffsetCap, which are followed
\* modulo the batch size, aside).
\* ------------------------------------------------------------------------
C28_RetryOnceThenSkip ==
    [][\A c \in Cores :
          LET o == start_offset[c]
              r == make_request(circuit_breakers[c], now,
                                request_outcome(source[c], outage))
              brought == Len(Emitted(c)') - Len(Emitted(c))
          IN
          /\ FetchFails(c) =>
                IF r.timeout_text /\ o < 3 * batch_size
                THEN pc'[c] = "retry" /\ start_offset'[c] = o
                ELSE /\ pc'[c] = "extract"
                     /\ o <= OffsetCap => start_offset'[c] = o + batch_size
          /\ pc[c] = "retry" =>
                /\ o < 3 * batch_size
                /\ pc'[c] = "retry" => start_offset'[c] = o
                /\ RetryFails(c) =>
                      pc'[c] = "extract" /\ start_offset'[c] = o + batch_size
                /\ (r.ok /\ pc'[c] = "extract") =>
                      /\ brought = Min(Max(100, batch_size \div 2),
                                       Max(num_found[c] - o, 0))
                      /\ start_offset'[c] = o + brought
          /\ (pc[c] \in {"extract", "retry"} /\ pc'[c] # "done" /\ o <= OffsetCap) =>
                start_offset'[c] >= o]_vars

\* a request has timed out, its retry has brought the rest of the source's
\* five documents in one answer, and nothing was skipped
C28_Witness ==
    \E c \in Cores :
        /\ pc[c] = "extract"
        /\ ~fetch_log[c].clean
        /\ num_found[c] = 5
        /\ start_offset[c] = 5
        /\ Contents(gen[c]) = <<1, 2, 3, 4, 5>>

\* this step is a health-check attempt of source c that passes
Passes(c) ==
    /\ HealthCheck(c)
    /\ make_request(circuit_breakers[c], now, request_outcome(source[c], outage)).ok
    /\ source[c] # "unhealthy"

\* C29 as stated: the health check of a source is attempted at most 3
\* times, the attempt made when attempt[c] = k being attempt number k + 1
C29_Original ==
    [][\A c \in Cores : HealthCheck(c) => attempt[c] + 1 <= 3]_vars

\* ------------------------------------------------------------------------
\* C29: the attempts of a source's health check are numbered from 0 when
\* the pipeline starts, a failed attempt is followed by the next one up to
\* number max_retries and by the count request after that, so at most
\* max_retries + 1 = 4 attempts are made; an attempt that passes is
\* followed by the count request, and a pipeline that has left the health
\* check never comes back to it.
\* ------------------------------------------------------------------------
C29_HealthCheckAttemptsBounded ==
    /\ [](\A c \in Cores : pc[c] = "health" => attempt[c] \in 0..max_retries)
    /\ [][\A c \in Cores :
            /\ Acquire(c) => attempt'[c] = 0
            /\ HealthCheck(c) =>
                  /\ attempt[c] + 1 <= max_retries + 1
                  /\ IF Passes(c)
                     THEN pc'[c] = "count" /\ attempt'[c] = attempt[c]
                     ELSE IF attempt[c] < max_retries
                     THEN pc'[c] = "health" /\ attempt'[c] = attempt[c] + 1
                     ELSE pc'[c] = "count" /\ attempt'[c] = attempt[c]
            /\ pc[c] \notin {"waiting", "health"} => pc'[c] # "health"]_vars

\* a fourth attempt has failed and the pipeline is at its count request
C29_Witness ==
    \E c \in Cores :
        /\ pc[c] = "count"
        /\ attempt[c] = 3
        /\ errors[c] = <<"Core health check failed after retries">>

\* retry_delay before the attempt that follows attempt number attempt_no, in
\* half seconds: 2.0 s at first, multiplied by 1.5 after each wait
RECURSIVE retry_delay_halves(_)
retry_delay_halves(attempt_no) ==
    IF attempt_no = 0 THEN 4 ELSE (retry_delay_halves(attempt_no - 1) * 3) \div 2

\* ------------------------------------------------------------------------
\* C30: a failed health-check attempt that is followed by another attempt
\* is followed by it only after the backoff delay: the clock has moved on
\* by 2 s after the first failed attempt, by 3 s after the second and by
\* 4.5 s after the third when the pipeline is ready for its next attempt.
\* ------------------------------------------------------------------------
C30_BackoffBetweenAttempts ==
    [][\A c \in Cores :
          (HealthCheck(c) /\ pc'[c] = "health") =>
             2 * (now' - now) >= retry_delay_halves(attempt[c])]_vars

\* ------------------------------------------------------------------------
\* C31: the processed_docs of the result a finished source returns is the
\* number of entries in the data files it returns.
\* ------------------------------------------------------------------------
C31_ProcessedIsWritten ==
    \A c \in Cores :
        pc[c] = "done" =>
           task_results[c].processed_docs =
              Len(Flatten(DataFiles(task_results[c].sitemap_files)))

\* the documents of the answer pipeline c is receiving in this step
Batch(c) ==
    fetch_docs_batch(num_found[c], start_offset[c],
                     IF pc[c] = "extract" THEN batch_size
                     ELSE reduced_batch_size(batch_size))

\* how many of them cannot be converted
Unconvertible(documents) ==
    Cardinality({i \in 1..Len(documents) : documents[i] \in config.bad_ids})

\* ------------------------------------------------------------------------
\* C32: during extraction the tracker's error counter of a source goes up
\* by one for each batch request that fails, the request of the retry
\* included, and by one for each document of an answered batch that cannot
\* be converted, the answer to a retry included (the counter is followed up
\* to MaxErrors).
\* ------------------------------------------------------------------------
C32_EveryFailureCounted ==
    [][\A c \in Cores :
          LET counted == core_progress[c].errors_count IN
          /\ (FetchFails(c) \/ RetryFails(c)) =>
                core_progress'[c].errors_count = Min(counted + 1, MaxErrors)
          /\ (Answered(c) /\ pc'[c] # "done") =>
                core_progress'[c].errors_count =
                   Min(counted + Unconvertible(Batch(c)), MaxErrors)]_vars

\* ------------------------------------------------------------------------
\* C33: of an answered batch, exactly the documents whose URL can be built
\* are emitted, in the order of the batch, after what was emitted before;
\* the offset moves on by the length of the whole batch, the documents
\* dropped included; and after a full batch the pagination goes on (a step
\* in which a file write fails, which ends the pipeline, aside).
\* ------------------------------------------------------------------------
C33_FailedDocumentDroppedAlone ==
    [][\A c \in Cores :
          LET documents == Batch(c)
              kept == SelectSeq(documents, LAMBDA doc : doc \notin config.bad_ids)
              write_failed == pc'[c] = "done" /\ task_results'[c].errors # errors[c]
          IN
          (Answered(c) /\ ~write_failed) =>
             /\ Emitted(c)' = Emitted(c) \o kept
             /\ pc'[c] # "done" => start_offset'[c] = start_offset[c] + Len(documents)
             /\ Len(documents) = batch_size => pc'[c] = "extract"]_vars

\* no request failed, documents 2 and 3 of five have a blank id: the source
\* is done and documents 1, 4 and 5 were emitted, 1 and 4 each from a batch
\* that lost its other document
C33_Witness ==
    \E c \in Cores :
        /\ pc[c] = "done"
        /\ config.bad_ids = {2, 3}
        /\ fetch_log[c].clean
        /\ task_results[c].total_docs = 5
        /\ Emitted(c) = <<1, 4, 5>>

\* ------------------------------------------------------------------------
\* C34: a pipeline whose count request fails, by a connection error or by
\* the open breaker failing fast, is done in that step: its result has
\* total_docs 0, processed_docs 0, no file and the errors recorded so far
\* followed by the count failure; the output directory is left as it was
\* and no batch was or is requested for the source.
\* ------------------------------------------------------------------------
C34_CountFailureEndsPipeline ==
    [][\A c \in Cores :
          (/\ pc[c] = "count"
           /\ ~make_request(circuit_breakers[c], now,
                            request_outcome(source[c], outage)).ok
           /\ pc'[c] # "count") =>
             /\ pc'[c] = "done"
             /\ task_results'[c].total_docs = 0
             /\ task_results'[c].processed_docs = 0
             /\ task_results'[c].sitemap_files = <<>>
             /\ task_results'[c].errors =
                   Append(errors[c], "Failed to get document count")
             /\ output_dir' = output_dir
             /\ fetch_log[c] = NoFetch
             /\ fetch_log'[c] = NoFetch]_vars

\* the health check has failed for good and opened the breaker, and the
\* count request has failed fast: the source is done with both errors
C34_Witness ==
    \E c \in Cores :
        /\ pc[c] = "done"
        /\ circuit_breakers[c].state = OPEN
        /\ task_results[c].errors = <<"Core health check failed after retries",
                                      "Failed to get document count">>
        /\ task_results[c].processed_docs = 0
        /\ output_dir = {}

\* ------------------------------------------------------------------------
\* C35: a pipeline whose count request returns 0 is done in that step: no
\* batch was or is requested, the output directory is left as it was, the
\* tracker has the source as completed, and the result has total_docs 0,
\* processed_docs 0, no file and no error but that of a health check that
\* failed before.
\* ------------------------------------------------------------------------
C35_EmptySourceEndsPipeline ==
    [][\A c \in Cores :
          CountReturns(c, 0, FALSE) =>
             /\ pc'[c] = "done"
             /\ task_results'[c].total_docs = 0
             /\ task_results'[c].processed_docs = 0
             /\ task_results'[c].sitemap_files = <<>>
             /\ task_results'[c].errors = errors[c]
             /\ errors[c] \in {<<>>, <<"Core health check failed after retries">>}
             /\ core_progress'[c].phase = "completed"
             /\ core_progress'[c].errors_count = 0
             /\ output_dir' = output_dir
             /\ fetch_log'[c] = NoFetch]_vars

\* a source that failed its health check and then reported no document is
\* done and marked completed, with that one error
C35_Witness ==
    \E c \in Cores :
        /\ pc[c] = "done"
        /\ c \in DOMAIN core_progress
        /\ core_progress[c].phase = "completed"
        /\ core_progress[c].total = 0
        /\ task_results[c].total_docs = 0
        /\ task_results[c].errors = <<"Core health check failed after retries">>
        /\ fetch_log[c] = NoFetch

\* ------------------------------------------------------------------------
\* C36: the buffer of generate_sitemaps never holds more than
\* max_urls_per_file entries, whatever the number of documents of the
\* source: between two batches it holds fewer, and the buffer handed to
\* _create_sitemap_file, which is the content of the file, holds no more;
\* and it is emptied when a file is written: what it holds comes after
\* everything that is in a file.
\* ------------------------------------------------------------------------
C36_BufferBounded ==
    \A c \in Cores :
        LET g == gen[c] IN
        /\ Len(g.current_entries) <= max_urls_per_file
        /\ pc[c] \in {"extract", "retry"} => Len(g.current_entries) < max_urls_per_file
        /\ \A i \in 1..Len(g.generated_files) :
              /\ Len(g.generated_files[i].entries) <= max_urls_per_file
              /\ \A j \in 1..Len(g.generated_files[i].entries) :
                    \A k \in 1..Len(g.current_entries) :
                       g.generated_files[i].entries[j] < g.current_entries[k]
        /\ pc[c] = "done" =>
              \A i \in 1..Len(task_results[c].sitemap_files) :
                 task_results[c].sitemap_files[i].kind = "sitemap" =>
                    Len(task_results[c].sitemap_files[i].entries) <= max_urls_per_file

\* two files have been written and the buffer holds the one entry that
\* came after them
C36_Witness ==
    \E c \in Cores :
        /\ pc[c] = "extract"
        /\ Len(gen[c].generated_files) = 2
        /\ gen[c].generated_files[2].entries = <<3, 4>>
        /\ gen[c].current_entries = <<5>>

PhaseRank(phase) ==
    CASE phase = "initializing"        -> 0
      [] phase = "document_extraction" -> 1
      [] phase = "sitemap_generation"  -> 2
      [] phase = "completed"           -> 3

\* ------------------------------------------------------------------------
\* C38: the phase the tracker holds for a source never moves back in the
\* order document_extraction, sitemap_generation, completed, and it is
\* sitemap_generation only when the pagination of the source is over.
\* ------------------------------------------------------------------------
C38_PhaseMovesForward ==
    /\ [](\A c \in Cores :
            (c \in DOMAIN core_progress /\ core_progress[c].phase = "sitemap_generation")
               => pc[c] \notin {"extract", "retry"})
    /\ [][\A c \in Cores :
            (c \in DOMAIN core_progress /\ c \in DOMAIN core_progress') =>
               PhaseRank(core_progress'[c].phase) >= PhaseRank(core_progress[c].phase)]_vars

\* ------------------------------------------------------------------------
\* C39: in every state of a breaker configured with thresholds of 1 or
\* more, the counters agree with the state: a closed breaker has fewer
\* failures than failure_threshold and no success counted; an open breaker
\* has no success counted and a last_failure_time; a half-open breaker has
\* fewer successes than success_threshold.
\* ------------------------------------------------------------------------
C39_CountersAgreeWithState ==
    \A n \in DOMAIN circuit_breakers :
        LET b == circuit_breakers[n] IN
        /\ b.state = CLOSED =>
              b.failure_count < b.config.failure_threshold /\ b.success_count = 0
        /\ b.state = OPEN =>
              b.success_count = 0 /\ b.last_failure_time # None
        /\ b.state = HALF_OPEN =>
              b.success_count < b.config.success_threshold

\* a probe had succeeded once, short of a success_threshold of 2, when the
\* next probe failed: the breaker is open again with no success counted
C39_Witness ==
    \E n \in DOMAIN circuit_breakers :
        /\ circuit_breakers[n].state = OPEN
        /\ circuit_breakers[n].config.success_threshold = 2
        /\ probe_successes[n] = 1
        /\ circuit_breakers[n].success_count = 0
        /\ circuit_breakers[n].last_failure_time = now

\* ------------------------------------------------------------------------
\* C40: the number of rows a pipeline asks for in the retry after a timeout
\* is not larger than the batch_size of its source.
\* ------------------------------------------------------------------------
C40_RetryNotLargerThanBatch ==
    \A c \in Cores :
        pc[c] = "retry" => reduced_batch_size(batch_size) <= batch_size

====
